---------------------------- MODULE Spec2Model ----------------------------
(***************************************************************************)
(* Cross-chain transfer agent: the orchestrator's per-session transfer     *)
(* state machine (handleUserMessage and the functions it awaits), the      *)
(* bridge router that aggregates and ranks provider quotes, the validator  *)
(* and the chain detector.                                                 *)
(*                                                                         *)
(* JavaScript strings are sequences of one-character strings, so that      *)
(* String.prototype.includes, trim, toLowerCase and the regular            *)
(* expressions of the source are computed, not assumed.                    *)
(*                                                                         *)
(* Money is an integer count of 1/10000 USD (MoneyScale); the inputs are   *)
(* chosen so that every fee formula of the source is exact at that scale.  *)
(* Liquidity is in whole USD, success rates in percent.                    *)
(***************************************************************************)
EXTENDS Integers, Sequences, FiniteSets, TLC

\* ------------------------------------------------------------------------
\* Bounds of the model
\* ------------------------------------------------------------------------
MaxEvents == 3
MaxTasks == 2
MaxAlerts == 2
MaxTicks == 2
MaxUserEvents == 1
MaxRequests == 2
MaxVerifies == 2
MaxPayTime == 15

MoneyScale == 100 * 100

\* null for enumerated strings, for texts and for numbers; NaN for numbers
NULL == "null"
NullStr == <<"null">>
NoNum == 0 - 1
NaN == 0 - 2

\* ------------------------------------------------------------------------
\* Strings
\* ------------------------------------------------------------------------
Alphabet ==
  [upper |-> <<"A","B","C","D","E","F","G","H","I","J","K","L","M",
               "N","O","P","Q","R","S","T","U","V","W","X","Y","Z">>,
   lower |-> <<"a","b","c","d","e","f","g","h","i","j","k","l","m",
               "n","o","p","q","r","s","t","u","v","w","x","y","z">>,
   digit |-> <<"0","1","2","3","4","5","6","7","8","9">>]

\* the character classes of the regular expressions; base58 is
\* [1-9A-HJ-NP-Za-km-z]
CharClass ==
  [digits |-> {"0", "1", "2", "3", "4", "5", "6", "7", "8", "9"},
   upper |-> {"A", "B", "C", "D", "E", "F", "G", "H", "I", "J", "K", "L",
              "M", "N", "O", "P", "Q", "R", "S", "T", "U", "V", "W", "X",
              "Y", "Z"},
   lower |-> {"a", "b", "c", "d", "e", "f", "g", "h", "i", "j", "k", "l",
              "m", "n", "o", "p", "q", "r", "s", "t", "u", "v", "w", "x",
              "y", "z"},
   hex |-> {"0", "1", "2", "3", "4", "5", "6", "7", "8", "9", "a", "b",
            "c", "d", "e", "f", "A", "B", "C", "D", "E", "F"},
   alnum |-> {"0", "1", "2", "3", "4", "5", "6", "7", "8", "9", "A", "B",
              "C", "D", "E", "F", "G", "H", "I", "J", "K", "L", "M", "N",
              "O", "P", "Q", "R", "S", "T", "U", "V", "W", "X", "Y", "Z",
              "a", "b", "c", "d", "e", "f", "g", "h", "i", "j", "k", "l",
              "m", "n", "o", "p", "q", "r", "s", "t", "u", "v", "w", "x",
              "y", "z"},
   base58 |-> {"1", "2", "3", "4", "5", "6", "7", "8", "9", "A", "B", "C",
               "D", "E", "F", "G", "H", "J", "K", "L", "M", "N", "P", "Q",
               "R", "S", "T", "U", "V", "W", "X", "Y", "Z", "a", "b", "c",
               "d", "e", "f", "g", "h", "i", "j", "k", "m", "n", "o", "p",
               "q", "r", "s", "t", "u", "v", "w", "x", "y", "z"}]

\* String.prototype.toLowerCase / toUpperCase
ToLower(s) ==
  [i \in 1..Len(s) |->
     IF s[i] \in CharClass.upper
       THEN Alphabet.lower[CHOOSE j \in 1..26 : Alphabet.upper[j] = s[i]]
       ELSE s[i]]
ToUpper(s) ==
  [i \in 1..Len(s) |->
     IF s[i] \in CharClass.lower
       THEN Alphabet.upper[CHOOSE j \in 1..26 : Alphabet.lower[j] = s[i]]
       ELSE s[i]]

\* String.prototype.trim (the only white space of the inputs is the blank)
Trim(s) ==
  LET nb == { i \in 1..Len(s) : s[i] # " " }
  IN IF nb = {} THEN <<>>
     ELSE LET lo == CHOOSE i \in nb : \A j \in nb : i <= j
              hi == CHOOSE i \in nb : \A j \in nb : i >= j
          IN SubSeq(s, lo, hi)

\* String.prototype.includes
Includes(s, w) ==
  \E i \in 1..(Len(s) - Len(w) + 1) : SubSeq(s, i, i + Len(w) - 1) = w

StartsWith(s, w) == Len(s) >= Len(w) /\ SubSeq(s, 1, Len(w)) = w

AllIn(s, chars) == \A i \in 1..Len(s) : s[i] \in chars

\* length of the maximal run of characters of chars starting at position i
RECURSIVE RunLen(_, _, _)
RunLen(s, i, chars) ==
  IF i > Len(s) \/ s[i] \notin chars THEN 0
  ELSE 1 + RunLen(s, i + 1, chars)

Min(a, b) == IF a <= b THEN a ELSE b

DigitVal(c) == (CHOOSE i \in 1..10 : Alphabet.digit[i] = c) - 1

RECURSIVE DigitsToInt(_)
DigitsToInt(s) ==
  IF Len(s) = 0 THEN 0
  ELSE 10 * DigitsToInt(SubSeq(s, 1, Len(s) - 1)) + DigitVal(s[Len(s)])

\* the fraction 0.d1d2d3d4 as a count of 1/MoneyScale (four decimals kept)
FracToMoney(s) ==
  LET p == [i \in 1..4 |-> IF i <= Len(s) THEN s[i] ELSE "0"]
  IN DigitsToInt(p)

\* parseFloat of a string made of digits and periods, in 1/MoneyScale;
\* NaN when no number starts the string
ParseFloatMoney(s) ==
  LET n1 == RunLen(s, 1, CharClass.digits)
      dot == n1 + 1 <= Len(s) /\ s[n1 + 1] = "."
      n2 == IF dot THEN RunLen(s, n1 + 2, CharClass.digits) ELSE 0
  IN IF n1 = 0 /\ n2 = 0 THEN NaN
     ELSE DigitsToInt(SubSeq(s, 1, n1)) * MoneyScale
          + FracToMoney(SubSeq(s, n1 + 2, n1 + 1 + n2))

\* ------------------------------------------------------------------------
\* Texts of the inbound messages
\* ------------------------------------------------------------------------
EvmAddr1 == <<"0","x","A","1","b","2">> \o [i \in 1..35 |-> "0"] \o <<"1">>
SolAddr1 ==
  <<"7","x","K","X","t","g","2","C","W","8","7","d","9","7","T","X">>
  \o <<"J","S","D","p","b","D","5","j","B","k","h","e","T","q","A","8">>
  \o <<"3","T","Z","R","u","J","o","s","g","A","s","U">>

Txt ==
  [Send |-> <<"s","e","n","d"," ">>,
   To |-> <<" ","t","o"," ">>,
   Usdc |-> <<" ","U","S","D","C">>,
   FromEthereum |-> <<" ","f","r","o","m"," ","E","t","h","e","r","e","u","m">>,
   OnBase |-> <<" ","o","n"," ","B","a","s","e">>]

MessageIds ==
  {"yes", "no", "hmm", "no way", "sendBase", "sendTiny", "sendSol",
   "sendNoAddr", "alert", "fee"}

Text(m) ==
  CASE m = "yes" -> <<"y","e","s">>
    [] m = "no" -> <<"n","o">>
    [] m = "hmm" -> <<"h","m","m">>
    [] m = "no way" -> <<"n","o"," ","w","a","y">>
    \* "send 1 USDC from Ethereum to 0xA1b2...01 on Base"
    [] m = "sendBase" ->
         Txt.Send \o <<"1">> \o Txt.Usdc \o Txt.FromEthereum
         \o Txt.To \o EvmAddr1 \o Txt.OnBase
    \* "send 0.5 USDC to 0xA1b2...01 on Base"
    [] m = "sendTiny" ->
         Txt.Send \o <<"0",".","5">> \o Txt.Usdc \o Txt.To \o EvmAddr1
         \o Txt.OnBase
    \* "send 20 USDC to 7xKX...AsU"
    [] m = "sendSol" ->
         Txt.Send \o <<"2","0">> \o Txt.Usdc \o Txt.To \o SolAddr1
    \* "send 100 USDC"
    [] m = "sendNoAddr" -> Txt.Send \o <<"1","0","0">> \o Txt.Usdc
    \* "alert me when fees to base drop below $0.50"
    [] m = "alert" ->
         <<"a","l","e","r","t"," ","m","e"," ","w","h","e","n"," ">>
         \o <<"f","e","e","s"," ","t","o"," ","b","a","s","e"," ">>
         \o <<"d","r","o","p"," ","b","e","l","o","w"," ","$","0",".">>
         \o <<"5","0">>
    \* "how much to polygon"
    [] m = "fee" ->
         <<"h","o","w"," ","m","u","c","h"," ","t","o"," ">>
         \o <<"p","o","l","y","g","o","n">>

\* ------------------------------------------------------------------------
\* intentParser.js: the local parser
\* ------------------------------------------------------------------------
Words ==
  [usdm |-> <<"u","s","d","m">>,
   usdt |-> <<"u","s","d","t">>,
   usdc |-> <<"u","s","d","c">>,
   celo |-> <<"c","e","l","o">>,
   eth |-> <<"e","t","h">>,
   base |-> <<"b","a","s","e">>,
   ethereum |-> <<"e","t","h","e","r","e","u","m">>,
   polygon |-> <<"p","o","l","y","g","o","n">>,
   matic |-> <<"m","a","t","i","c">>,
   arbitrum |-> <<"a","r","b","i","t","r","u","m">>,
   arb |-> <<"a","r","b">>,
   solana |-> <<"s","o","l","a","n","a">>,
   sol |-> <<"s","o","l">>,
   optimism |-> <<"o","p","t","i","m","i","s","m">>,
   op |-> <<"o","p">>,
   avalanche |-> <<"a","v","a","l","a","n","c","h","e">>,
   avax |-> <<"a","v","a","x">>,
   bnb |-> <<"b","n","b">>,
   bsc |-> <<"b","s","c">>,
   fee |-> <<"f","e","e">>,
   alert |-> <<"a","l","e","r","t">>,
   notify |-> <<"n","o","t","i","f","y">>,
   whenFees |-> <<"w","h","e","n"," ","f","e","e","s">>,
   howMuch |-> <<"h","o","w"," ","m","u","c","h">>,
   cost |-> <<"c","o","s","t">>,
   checkPrice |-> <<"c","h","e","c","k"," ","p","r","i","c","e">>,
   fast |-> <<"f","a","s","t">>,
   safe |-> <<"s","a","f","e">>]

extractToken(msg) ==
  IF Includes(msg, Words.usdm) THEN "USDm"
  ELSE IF Includes(msg, Words.usdt) THEN "USDT"
  ELSE IF Includes(msg, Words.usdc) THEN "USDC"
  ELSE IF Includes(msg, Words.celo) THEN "CELO"
  ELSE IF Includes(msg, <<" ">> \o Words.eth) THEN "ETH"
  ELSE NULL

OrElse(v, d) == IF v = NULL THEN d ELSE v

\* /\b(base|ethereum|polygon|arbitrum|solana|optimism)\b/ : the leftmost match
ChainWords ==
  <<<<Words.base, "base">>, <<Words.ethereum, "ethereum">>, <<Words.polygon, "polygon">>,
    <<Words.arbitrum, "arbitrum">>, <<Words.solana, "solana">>,
    <<Words.optimism, "optimism">>>>

WordChars == CharClass.alnum \cup {"_"}

WordAt(s, i, w) ==
  /\ i + Len(w) - 1 <= Len(s)
  /\ SubSeq(s, i, i + Len(w) - 1) = w
  /\ (i = 1 \/ s[i - 1] \notin WordChars)
  /\ (i + Len(w) > Len(s) \/ s[i + Len(w)] \notin WordChars)

chainMatch(msg) ==
  LET hits == { <<i, k>> \in (1..Len(msg)) \X (1..Len(ChainWords)) :
                  WordAt(msg, i, ChainWords[k][1]) }
  IN IF hits = {} THEN NULL
     ELSE LET h == CHOOSE x \in hits : \A y \in hits : x[1] <= y[1]
          IN ChainWords[h[2]][2]

\* msg.match(/\$?([\d.]+)/)?.[1] : the leftmost maximal run of digits and
\* periods
thresholdMatch(msg) ==
  LET cs == CharClass.digits \cup {"."}
      starts == { i \in 1..Len(msg) : msg[i] \in cs }
  IN IF starts = {} THEN NullStr
     ELSE LET i == CHOOSE x \in starts : \A y \in starts : x <= y
          IN SubSeq(msg, i, i + RunLen(msg, i, cs) - 1)

\* msg.match(/(\d+(?:\.\d+)?)\s*(usdt|usdc|usdm|celo|eth)?/) : group 1
amountMatch(msg) ==
  LET starts == { i \in 1..Len(msg) : msg[i] \in CharClass.digits }
  IN IF starts = {} THEN NullStr
     ELSE LET i == CHOOSE x \in starts : \A y \in starts : x <= y
              n1 == RunLen(msg, i, CharClass.digits)
              dot == i + n1 <= Len(msg) /\ msg[i + n1] = "."
              n2 == IF dot THEN RunLen(msg, i + n1 + 1, CharClass.digits) ELSE 0
          IN IF n2 > 0 THEN SubSeq(msg, i, i + n1 + n2)
             ELSE SubSeq(msg, i, i + n1 - 1)

\* message.match(/0x[a-fA-F0-9]{40}/)?.[0]
evmAddressMatch(message) ==
  LET hits == { i \in 1..Len(message) :
                  /\ i + 41 <= Len(message)
                  /\ message[i] = "0" /\ message[i + 1] = "x"
                  /\ RunLen(message, i + 2, CharClass.hex) >= 40 }
  IN IF hits = {} THEN NullStr
     ELSE LET i == CHOOSE x \in hits : \A y \in hits : x <= y
          IN SubSeq(message, i, i + 41)

\* message.match(/[1-9A-HJ-NP-Za-km-z]{32,44}/)?.[0]
solanaAddressMatch(message) ==
  LET hits == { i \in 1..Len(message) :
                  RunLen(message, i, CharClass.base58) >= 32 }
  IN IF hits = {} THEN NullStr
     ELSE LET i == CHOOSE x \in hits : \A y \in hits : x <= y
          IN SubSeq(message, i,
                    i + Min(44, RunLen(message, i, CharClass.base58)) - 1)

\* Object.entries(chainMap), in insertion order
chainMap ==
  <<<<Words.base, "base">>, <<Words.ethereum, "ethereum">>, <<Words.eth, "ethereum">>,
    <<Words.polygon, "polygon">>, <<Words.matic, "polygon">>,
    <<Words.arbitrum, "arbitrum">>, <<Words.arb, "arbitrum">>,
    <<Words.solana, "solana">>, <<Words.sol, "solana">>,
    <<Words.optimism, "optimism">>, <<Words.op, "optimism">>>>

chainMapLookup(msg) ==
  LET hits == { k \in 1..Len(chainMap) : Includes(msg, chainMap[k][1]) }
  IN IF hits = {} THEN NULL
     ELSE chainMap[CHOOSE k \in hits : \A j \in hits : k <= j][2]

\* a JavaScript number used as a condition: 0 and NaN are falsy
Truthy(n) == n \notin {NoNum, NaN, 0}

localParseIntent(message) ==
  LET msg == Trim(ToLower(message))
      am == amountMatch(msg)
      amount == IF am = NullStr THEN NoNum ELSE ParseFloatMoney(am)
      token == OrElse(extractToken(msg), "USDC")
      evmAddress == evmAddressMatch(message)
      solanaAddress == solanaAddressMatch(message)
      toAddress == IF evmAddress # NullStr THEN evmAddress ELSE solanaAddress
      c0 == chainMapLookup(msg)
      c1 == IF c0 = NULL /\ solanaAddress # NullStr /\ evmAddress = NullStr
              THEN "solana" ELSE c0
      toChain == IF c1 = NULL /\ evmAddress # NullStr THEN "ethereum" ELSE c1
      priority == IF Includes(msg, Words.safe) THEN "safest"
                  ELSE IF Includes(msg, Words.fast) THEN "fastest"
                  ELSE "cheapest"
      tm == thresholdMatch(msg)
  IN IF \/ Includes(msg, Words.alert) \/ Includes(msg, Words.notify)
        \/ Includes(msg, Words.whenFees)
     THEN [type |-> "alert",
           condition |-> IF Includes(msg, Words.fee) THEN "fee_below"
                         ELSE "price_below",
           threshold |-> ParseFloatMoney(IF tm = NullStr THEN <<"1">> ELSE tm),
           token |-> token,
           targetChain |-> OrElse(chainMatch(msg), "base"),
           action |-> "notify",
           transferDetails |-> NULL]
     ELSE IF \/ Includes(msg, Words.fee) \/ Includes(msg, Words.howMuch)
             \/ Includes(msg, Words.cost) \/ Includes(msg, Words.checkPrice)
     THEN [type |-> "query", queryType |-> "fee_check", token |-> token,
           chain |-> OrElse(chainMatch(msg), "base")]
     ELSE IF toAddress # NullStr /\ Truthy(amount)
     THEN [type |-> "transfer", fromChain |-> "celo", fromAddress |-> NullStr,
           toAddress |-> toAddress, token |-> token, amount |-> amount,
           toChain |-> toChain, priority |-> priority]
     ELSE IF Truthy(amount) /\ toAddress = NullStr
     THEN [type |-> "clarification_needed", missingFields |-> {"toAddress"}]
     ELSE IF toAddress # NullStr /\ ~Truthy(amount)
     THEN [type |-> "clarification_needed", missingFields |-> {"amount"}]
     ELSE [type |-> "clarification_needed",
           missingFields |-> {"amount", "toAddress"}]

LocalIntent == [m \in MessageIds |-> localParseIntent(Text(m))]

\* ------------------------------------------------------------------------
\* orchestrator.js: the vocabulary of handleConfirmation
\* ------------------------------------------------------------------------
isYes(userMessage) ==
  \E w \in {<<"y","e","s">>, <<"y">>, <<"c","o","n","f","i","r","m">>,
            <<"o","k">>, <<"s","u","r","e">>,
            <<"p","r","o","c","e","e","d">>,
            <<"e","x","e","c","u","t","e">>, <<"g","o">>} :
    Includes(ToLower(Trim(userMessage)), w)
isNo(userMessage) ==
  \E w \in {<<"n","o">>, <<"n">>, <<"c","a","n","c","e","l">>,
            <<"s","t","o","p">>, <<"a","b","o","r","t">>,
            <<"n","e","v","e","r","m","i","n","d">>} :
    Includes(ToLower(Trim(userMessage)), w)

IsYes == [m \in MessageIds |-> isYes(Text(m))]
IsNo == [m \in MessageIds |-> isNo(Text(m))]

\* ------------------------------------------------------------------------
\* chainDetector.js
\* ------------------------------------------------------------------------
\* The context hint is only ever tested for the words below
\* (hint.includes(word)); a hint is the set of those words it contains.
HintsOf(text) ==
  { w \in {Words.base, Words.celo, Words.polygon, Words.matic,
           Words.arbitrum, Words.optimism, Words.avalanche, Words.avax,
           Words.bnb, Words.bsc} : Includes(ToLower(text), w) }

MessageHints == [m \in MessageIds |-> HintsOf(Text(m))]

\* CHAIN_PATTERNS
\* CHAIN_PATTERNS[name].test(a)
CHAIN_PATTERNS(name, a) ==
  CASE name = "SOLANA" -> Len(a) \in 32..44 /\ AllIn(a, CharClass.base58)
    [] name = "EVM" ->
     /\ Len(a) = 42 /\ StartsWith(a, <<"0","x">>)
     /\ AllIn(SubSeq(a, 3, 42), CharClass.hex)
    [] name = "BITCOIN" ->
     \/ /\ Len(a) \in 26..34 /\ a[1] \in {"1", "3"}
        /\ AllIn(SubSeq(a, 2, Len(a)), CharClass.alnum)
     \/ /\ Len(a) \in 28..93 /\ StartsWith(a, <<"b","c","1">>)
        /\ AllIn(SubSeq(a, 4, Len(a)), CharClass.alnum)
    [] name = "TRON" ->
     Len(a) = 34 /\ a[1] = "T" /\ AllIn(SubSeq(a, 2, 34), CharClass.alnum)
    [] name = "NEAR" ->
     LET lc == CharClass.lower \cup CharClass.digits \cup {"_", "-"}
         sfx(w) == /\ Len(a) - Len(w) \in 2..64
                   /\ SubSeq(a, Len(a) - Len(w) + 1, Len(a)) = w
                   /\ AllIn(SubSeq(a, 1, Len(a) - Len(w)), lc)
     IN \/ sfx(<<".","n","e","a","r">>)
        \/ sfx(<<".","t","e","s","t","n","e","t">>)
        \/ /\ Len(a) = 64
           /\ AllIn(a, CharClass.digits \cup {"a","b","c","d","e","f"})
    [] name = "COSMOS" ->
     /\ Len(a) = 45 /\ StartsWith(a, <<"c","o","s","m","o","s">>)
     /\ AllIn(SubSeq(a, 7, 45), CharClass.lower \cup CharClass.digits)
    [] name = "OSMOSIS" ->
     /\ Len(a) = 43 /\ StartsWith(a, <<"o","s","m","o">>)
     /\ AllIn(SubSeq(a, 5, 43), CharClass.lower \cup CharClass.digits)

detectEVMChainFromContext(hint) ==
  IF Words.base \in hint THEN "base"
  ELSE IF Words.celo \in hint THEN "celo"
  ELSE IF Words.polygon \in hint \/ Words.matic \in hint THEN "polygon"
  ELSE IF Words.arbitrum \in hint THEN "arbitrum"
  ELSE IF Words.optimism \in hint THEN "optimism"
  ELSE IF Words.avalanche \in hint \/ Words.avax \in hint THEN "avalanche"
  ELSE IF Words.bnb \in hint \/ Words.bsc \in hint THEN "bnb"
  ELSE "ethereum"

\* the CHAIN_PATTERNS that address.trim() matches
patternsOf(address) ==
  { name \in {"SOLANA", "EVM", "BITCOIN", "TRON", "NEAR", "COSMOS", "OSMOSIS"} :
      CHAIN_PATTERNS(name, Trim(address)) }

\* patternsOf, tabulated for the addresses of the inputs
KnownAddresses == {EvmAddr1, SolAddr1}
PatternTable == [a \in KnownAddresses |-> patternsOf(a)]
Patterns(address) ==
  IF address \in KnownAddresses THEN PatternTable[address]
  ELSE patternsOf(address)

\* address is a string (a null address makes address.trim() throw, which
\* the callers model)
detectChainFromAddress(address, hint) ==
  LET ps == Patterns(address)
  IN IF "SOLANA" \in ps /\ ~StartsWith(Trim(address), <<"0","x">>)
       THEN [chain |-> "solana", unsupported |-> FALSE]
     ELSE IF "EVM" \in ps
       THEN [chain |-> detectEVMChainFromContext(hint), unsupported |-> FALSE]
     ELSE IF "BITCOIN" \in ps
       THEN [chain |-> "bitcoin", unsupported |-> TRUE]
     ELSE IF "TRON" \in ps THEN [chain |-> "tron", unsupported |-> FALSE]
     ELSE IF "NEAR" \in ps THEN [chain |-> "near", unsupported |-> FALSE]
     ELSE IF "COSMOS" \in ps THEN [chain |-> "cosmos", unsupported |-> FALSE]
     ELSE IF "OSMOSIS" \in ps
       THEN [chain |-> "osmosis", unsupported |-> FALSE]
     ELSE [chain |-> "unknown", unsupported |-> FALSE]

validateAddressForChain(address, chain) ==
  IF chain = "solana" THEN "SOLANA" \in Patterns(address)
  ELSE IF chain \in {"ethereum", "base", "celo", "polygon", "arbitrum",
                     "optimism", "bnb", "avalanche"}
    THEN "EVM" \in Patterns(address)
  ELSE IF chain = "tron" THEN "TRON" \in Patterns(address)
  ELSE FALSE

\* ------------------------------------------------------------------------
\* validator.js
\* ------------------------------------------------------------------------
MatrixChains ==
  {"solana", "base", "ethereum", "polygon", "arbitrum", "celo", "optimism",
   "bnb", "tron"}

\* TOKEN_SUPPORT_MATRIX[chain][token], for chain in MatrixChains; a token
\* the row does not list reads as undefined, which is falsy
TOKEN_SUPPORT_MATRIX(chain, token) ==
  IF chain = "celo" THEN token \in {"USDC", "USDT", "USDm", "CELO"}
  ELSE IF chain = "tron" THEN token = "USDT"
  ELSE token \in {"USDC", "USDT"}

HIGH_FEE_PERCENT == 5
LOW_LIQUIDITY_RATIO == 2
MIN_TRANSFER_USD == 1
MAX_SINGLE_TX_USD == 50000

\* null, by the kind of value it stands in for: a quote, a pending
\* transaction, a route, a verdict, a response, an intent, an alert, a call
\* of a function under check, and a run of the polling callback
None ==
  [quote |-> [bridge |-> NULL],
   pending |-> [id |-> 0],
   route |-> [best |-> [bridge |-> NULL], all |-> <<>>, warnings |-> <<>>],
   verdict |-> [valid |-> FALSE, chain |-> NULL, errors |-> <<>>,
                warnings |-> <<>>, suggestions |-> <<>>],
   resp |-> [kind |-> NULL, state |-> NULL],
   intent |-> [type |-> NULL],
   alert |-> [obj |-> 0],
   calc |-> [fn |-> NULL],
   buttons |-> [sent |-> {}, pressed |-> <<>>],
   tick |-> [pc |-> "idle", index |-> 0, alert |-> [obj |-> 0], task |-> 0]]

\* whole dollars against money: usd < m / MoneyScale
UsdLtMoney(usd, m) == usd < (m + MoneyScale - 1) \div MoneyScale

\* a / b > num / den for money a and a JavaScript number b (a >= 0; a
\* division by zero gives Infinity or NaN, a NaN comparison is false, null
\* converts to 0)
RatioGt(a, b, num, den) ==
  LET bb == IF b = NoNum THEN 0 ELSE b
  IN IF b = NaN \/ a = NaN THEN FALSE
     ELSE IF bb > 0 THEN a * den > num * bb
     ELSE IF bb = 0 THEN a > 0
     ELSE FALSE

\* variant: a verdict with a warning is not valid
validateResult_noWarnings(chain, errors, warnings, suggestions) ==
  [valid |-> Len(errors) = 0 /\ Len(warnings) = 0, chain |-> chain,
   errors |-> errors, warnings |-> warnings, suggestions |-> suggestions]

\* the object validateTransfer returns
validateResult(chain, errors, warnings, suggestions) ==
  [valid |-> Len(errors) = 0, chain |-> chain, errors |-> errors,
   warnings |-> warnings, suggestions |-> suggestions]

\* The checks of validateTransfer once the recipient's chain is detected:
\* detectedChain is the result of detectChainFromAddress and addrMatches
\* that of validateAddressForChain on the detected chain.  The verdict lists
\* its errors, warnings and suggestions by kind, in the order pushed.
validateChecks(intent, bridgeQuote, detectedChain, addrMatches) ==
  LET toAddress == intent.toAddress
      token == intent.token
      amount == intent.amount
      fromChain == intent.fromChain
      known == detectedChain.chain # "unknown"
      addrOk == known /\ addrMatches
      chain == IF known THEN detectedChain.chain ELSE intent.toChain
      hasRow == chain \in MatrixChains
      tokOk == hasRow /\ TOKEN_SUPPORT_MATRIX(chain, token)
      amt == IF amount = NoNum THEN 0 ELSE amount
      hasQ == bridgeQuote # None.quote
      highFee == hasQ /\ RatioGt(bridgeQuote.feeUSD, amount, HIGH_FEE_PERCENT, 100)
      lowLiq == /\ hasQ /\ amount # NaN
                /\ UsdLtMoney(bridgeQuote.liquidityUSD, amt * LOW_LIQUIDITY_RATIO)
      lowRate == hasQ /\ bridgeQuote.successRate < 95
      selfTx == /\ intent.fromAddress # NullStr /\ toAddress # NullStr
                /\ Len(intent.fromAddress) > 0 /\ Len(toAddress) > 0
                /\ ToLower(intent.fromAddress) = ToLower(toAddress)
                /\ fromChain = chain
      errors ==
        (IF ~known THEN <<"unknown_chain">> ELSE <<>>)
        \o (IF known /\ ~addrOk THEN <<"address_invalid">> ELSE <<>>)
        \o (IF hasRow /\ ~tokOk THEN <<"token_unsupported">> ELSE <<>>)
        \o (IF ~Truthy(amount) \/ amt <= 0 THEN <<"amount_not_positive">>
            ELSE <<>>)
        \o (IF amount # NaN /\ amt < MIN_TRANSFER_USD * MoneyScale
              THEN <<"amount_below_minimum">> ELSE <<>>)
        \o (IF ~hasQ THEN <<"no_route">> ELSE <<>>)
        \o (IF token = "USDm" /\ chain # "celo" THEN <<"usdm_only_on_celo">>
            ELSE <<>>)
      warnings ==
        (IF ~hasRow THEN <<"token_support_unknown">> ELSE <<>>)
        \o (IF amount # NaN /\ amt > MAX_SINGLE_TX_USD * MoneyScale
              THEN <<"large_transfer">> ELSE <<>>)
        \o (IF highFee THEN <<"high_fee">> ELSE <<>>)
        \o (IF lowLiq THEN <<"low_liquidity">> ELSE <<>>)
        \o (IF lowRate THEN <<"low_success_rate">> ELSE <<>>)
        \o (IF selfTx THEN <<"self_transfer">> ELSE <<>>)
      suggestions ==
        (IF ~known THEN <<"check_address">> ELSE <<>>)
        \o (IF hasRow /\ ~tokOk /\ (\E t \in {"USDC", "USDT", "USDm", "CELO"} :
                                      TOKEN_SUPPORT_MATRIX(chain, t))
              THEN <<"swap_first_supported">> ELSE <<>>)
        \o (IF ~hasQ THEN <<"try_other_token">> ELSE <<>>)
        \o (IF highFee THEN <<"wait_or_other_bridge">> ELSE <<>>)
        \o (IF lowLiq THEN <<"split_transfer">> ELSE <<>>)
        \o (IF token = "USDm" /\ chain # "celo" THEN <<"swap_usdm_first">>
            ELSE <<>>)
        \o (IF selfTx THEN <<"testing_note">> ELSE <<>>)
  IN validateResult(chain, errors, warnings, suggestions)

\* variant: the recipient's chain is detected with the hint celo
validateTransfer_hinted(intent, bridgeQuote) ==
  LET detectedChain == detectChainFromAddress(intent.toAddress, {Words.celo})
  IN validateChecks(intent, bridgeQuote, detectedChain,
                    validateAddressForChain(intent.toAddress,
                                            detectedChain.chain))

\* intent carries toChain as resolved by processTransfer
validateTransfer(intent, bridgeQuote) ==
  \* intent.rawMessage is never set by the parser: the hint is ""
  LET detectedChain == detectChainFromAddress(intent.toAddress, {})
  IN validateChecks(intent, bridgeQuote, detectedChain,
                    validateAddressForChain(intent.toAddress,
                                            detectedChain.chain))

\* ------------------------------------------------------------------------
\* bridgeRouter.js
\* ------------------------------------------------------------------------
\* CHAIN_IDS: whether the chain has a (truthy) id of each kind
CHAIN_IDS ==
  [across |-> {"ethereum", "base", "polygon", "arbitrum", "optimism"},
   wormhole |-> {"ethereum", "base", "celo", "polygon", "arbitrum",
                 "optimism", "solana", "bnb"},
   axelar |-> {"ethereum", "base", "celo", "polygon", "arbitrum", "optimism",
               "bnb"},
   layerzero |-> {"ethereum", "base", "celo", "polygon", "arbitrum",
                  "optimism", "bnb"},
   evm |-> {"ethereum", "base", "celo", "polygon", "arbitrum", "optimism",
            "bnb"}]

\* What a provider's HTTP endpoint does with one request: the fetch throws,
\* answers with a non-2xx status, or answers with data.  feeUSD is the fee
\* field of the answer (NoNum when the answer has none), feeBp the
\* percentage fields of Across in 1/100 of a percent.
Fetch ==
  [Throw |-> [kind |-> "throw"],
   NotOk |-> [kind |-> "notok"],
   Plain |-> [kind |-> "data", feeUSD |-> NoNum, feeBp |-> 5,
              liquidityUSD |-> NoNum],
   Costly |-> [kind |-> "data", feeUSD |-> 30 * MoneyScale, feeBp |-> 5,
               liquidityUSD |-> 150]]

\* amount * pct for an amount in money and pct = num / den
Pct(amount, num, den) == (amount * num) \div den

\* config.TOKENS[chain.toUpperCase()]?.[token] is set: cfg is the set of
\* chains whose token addresses the deployment configures
TokenConfigured(cfg, chain, token) ==
  chain \in cfg /\ token \in {"USDC", "USDT", "USDm", "CELO"}

getAcrossQuote(cfg, p, net) ==
  IF p.fromChain \notin CHAIN_IDS.across \/ p.toChain \notin CHAIN_IDS.across THEN None.quote
  ELSE IF \/ ~TokenConfigured(cfg, p.fromChain, p.token)
          \/ ~TokenConfigured(cfg, p.toChain, p.token) THEN None.quote
  ELSE IF net.kind # "data" THEN None.quote
  ELSE [bridge |-> "Across",
        feeUSD |-> Pct(p.amount, net.feeBp, 10000),
        estimatedMinutes |-> 2, successRate |-> 98,
        liquidityUSD |-> IF net.liquidityUSD = NoNum THEN 0
                         ELSE net.liquidityUSD,
        executionMethod |-> "across_relay", executionReady |-> FALSE]

getWormholeQuote(cfg, p, net) ==
  IF p.fromChain \notin CHAIN_IDS.wormhole \/ p.toChain \notin CHAIN_IDS.wormhole THEN None.quote
  ELSE IF net.kind = "throw" THEN None.quote
  ELSE [bridge |-> "Wormhole",
        feeUSD |-> IF net.kind = "data" /\ Truthy(net.feeUSD) THEN net.feeUSD
                   ELSE Pct(p.amount, 1, 1000) + MoneyScale \div 2,
        estimatedMinutes |-> 15, successRate |-> 97,
        liquidityUSD |-> IF net.kind = "data" /\ Truthy(net.liquidityUSD)
                           THEN net.liquidityUSD ELSE 10000000,
        executionMethod |-> "wormhole_ntt", executionReady |-> TRUE]

getAxelarQuote(cfg, p, net) ==
  IF p.fromChain \notin CHAIN_IDS.axelar \/ p.toChain \notin CHAIN_IDS.axelar THEN None.quote
  ELSE IF net.kind # "data" THEN None.quote
  ELSE [bridge |-> "Axelar",
        feeUSD |-> IF Truthy(net.feeUSD) THEN net.feeUSD
                   ELSE Pct(p.amount, 2, 1000),
        estimatedMinutes |-> 5, successRate |-> 96,
        liquidityUSD |-> 5000000,
        executionMethod |-> "axelar_gmp", executionReady |-> TRUE]

getCelerQuote(cfg, p, net) ==
  IF p.fromChain \notin CHAIN_IDS.evm \/ p.toChain \notin CHAIN_IDS.evm THEN None.quote
  ELSE IF ~TokenConfigured(cfg, p.fromChain, p.token) THEN None.quote
  ELSE IF net.kind # "data" THEN None.quote
  ELSE [bridge |-> "Celer",
        feeUSD |-> IF Truthy(net.feeUSD) THEN net.feeUSD
                   ELSE Pct(p.amount, 3, 1000),
        estimatedMinutes |-> 5, successRate |-> 95,
        \* parseFloat(data.liq_amt || 1000000) / 1e6
        liquidityUSD |-> IF Truthy(net.liquidityUSD) THEN net.liquidityUSD
                         ELSE 1,
        executionMethod |-> "celer_cbridge", executionReady |-> TRUE]

getLayerZeroQuote(cfg, p, net) ==
  IF p.fromChain \notin CHAIN_IDS.layerzero \/ p.toChain \notin CHAIN_IDS.layerzero THEN None.quote
  ELSE [bridge |-> "LayerZero/Stargate",
        feeUSD |-> Pct(p.amount, 6, 10000) + (45 * MoneyScale) \div 100,
        estimatedMinutes |-> 3, successRate |-> 97,
        liquidityUSD |-> 50000000,
        executionMethod |-> "layerzero_stargate", executionReady |-> TRUE]

\* variant: the comparator of cheapest under every priority
rankCompare_byFee(a, b, priority) == a.feeUSD - b.feeUSD

\* the comparator of rankQuotes: negative, zero or positive
rankCompare(a, b, priority) ==
  IF priority = "cheapest" THEN a.feeUSD - b.feeUSD
  ELSE IF priority = "fastest" THEN a.estimatedMinutes - b.estimatedMinutes
  ELSE IF priority = "safest" THEN b.successRate - a.successRate
  ELSE \* 10 * MoneyScale * (scoreA - scoreB)
       (4 * a.feeUSD + 4 * MoneyScale * a.estimatedMinutes
          + 2 * MoneyScale * (100 - a.successRate))
       - (4 * b.feeUSD + 4 * MoneyScale * b.estimatedMinutes
          + 2 * MoneyScale * (100 - b.successRate))

\* Array.prototype.sort is stable: insert x after the elements not greater
RECURSIVE InsertSorted(_, _, _)
InsertSorted(sorted, x, priority) ==
  IF Len(sorted) = 0 THEN <<x>>
  ELSE IF rankCompare(sorted[Len(sorted)], x, priority) <= 0
    THEN Append(sorted, x)
  ELSE Append(InsertSorted(SubSeq(sorted, 1, Len(sorted) - 1), x, priority),
              sorted[Len(sorted)])

RECURSIVE SortFrom(_, _, _)
SortFrom(sorted, rest, priority) ==
  IF Len(rest) = 0 THEN sorted
  ELSE SortFrom(InsertSorted(sorted, Head(rest), priority), Tail(rest),
                priority)

rankQuotes(quotes, priority) == SortFrom(<<>>, quotes, priority)

\* variant: every quote is offered
selectQuotes_all(allQuotes) == allQuotes

\* useQuotes: the quotes that can execute, or all of them when none can
selectQuotes(allQuotes) ==
  LET validQuotes == SelectSeq(allQuotes, LAMBDA q : q.executionReady = TRUE)
  IN IF Len(validQuotes) > 0 THEN validQuotes ELSE allQuotes

\* variant: no warning is given
noRouteResult_silent(p) == [best |-> None.quote, all |-> <<>>, warnings |-> <<>>]

\* what getBestBridgeRoute returns when there is no quote to use
noRouteResult(p) ==
  [best |-> None.quote, all |-> <<>>,
   warnings |-> <<[kind |-> "no_route", bridge |-> NULL]>>]

\* settled: the five settled provider results in the order of the
\* Promise.allSettled call (None.quote for null)
getBestBridgeRoute(p, settled) ==
  LET allQuotes == SelectSeq(settled, LAMBDA q : q # None.quote)
      validQuotes == SelectSeq(allQuotes, LAMBDA q : q.executionReady = TRUE)
      useQuotes == selectQuotes(allQuotes)
      notReady == SelectSeq(allQuotes, LAMBDA q : q.executionReady = FALSE)
      flagWarnings ==
        IF Len(notReady) > 0 /\ Len(validQuotes) = 0
          THEN <<[kind |-> "sdk_not_installed", bridge |-> NULL]>> ELSE <<>>
      perQuote(q) ==
        (IF p.amount # NaN
            /\ UsdLtMoney(q.liquidityUSD,
                          (IF p.amount = NoNum THEN 0 ELSE p.amount) * 2)
           THEN <<[kind |-> "low_liquidity", bridge |-> q.bridge]>>
           ELSE <<>>)
        \o (IF p.amount # NaN
               /\ 100 * q.feeUSD > 5 * (IF p.amount = NoNum THEN 0 ELSE p.amount)
              THEN <<[kind |-> "high_fee", bridge |-> q.bridge]>> ELSE <<>>)
      RECURSIVE each(_)
      each(qs) == IF Len(qs) = 0 THEN <<>>
                  ELSE perQuote(Head(qs)) \o each(Tail(qs))
      ranked == rankQuotes(useQuotes, p.priority)
  IN IF Len(useQuotes) = 0 THEN noRouteResult(p)
     ELSE [best |-> ranked[1], all |-> ranked,
           warnings |-> flagWarnings \o each(useQuotes)]

\* ------------------------------------------------------------------------
\* intentParser.js: parseIntent and the texts it generates
\* ------------------------------------------------------------------------
Unavailable == [type |-> "unavailable"]

\* What the remote model makes of a message when it answers: an intent of
\* the kind its system prompt prescribes for the message.  Unavailable
\* stands for no API key or a failed call.
ResolverReplies(m) ==
  {Unavailable} \cup
  CASE m = "sendBase" ->
         {[type |-> "transfer", fromChain |-> "ethereum",
           fromAddress |-> NullStr, toAddress |-> EvmAddr1, token |-> "USDC",
           amount |-> MoneyScale, toChain |-> "base",
           priority |-> "cheapest"]}
    [] m = "sendNoAddr" ->
         {[type |-> "transfer", fromChain |-> "celo", fromAddress |-> NullStr,
           toAddress |-> NullStr, token |-> "USDC",
           amount |-> 100 * MoneyScale, toChain |-> NULL,
           priority |-> "cheapest"]}
    [] m = "hmm" -> {[type |-> "smalltalk"]}
    [] OTHER -> {}

parseIntent(m, reply) == IF reply = Unavailable THEN LocalIntent[m] ELSE reply

ChainHintWord(chain) ==
  CASE chain = "base" -> {Words.base}
    [] chain = "celo" -> {Words.celo}
    [] chain = "polygon" -> {Words.polygon}
    [] chain = "arbitrum" -> {Words.arbitrum}
    [] chain = "optimism" -> {Words.optimism}
    [] chain = "avalanche" -> {Words.avalanche}
    [] chain = "bnb" -> {Words.bnb}
    [] OTHER -> {}

\* The hint words of the preview text: the local text names Celo and the
\* destination chain; a generated text names the destination chain.
generateTransactionPreview(local, toChain) ==
  (IF local THEN {Words.celo} ELSE {}) \cup ChainHintWord(toChain)

\* ------------------------------------------------------------------------
\* orchestrator.js
\* ------------------------------------------------------------------------
SessionIds == {"s1"}
TaskIds == 1..MaxTasks
TickIds == 1..MaxTicks
AllChains ==
  {"ethereum", "base", "celo", "polygon", "arbitrum", "optimism", "solana",
   "bnb"}
ConfigChoices == {{"celo"}, AllChains}

Resp(kind, state) == [kind |-> kind, state |-> state]

FreeTask ==
  [pc |-> "free", sid |-> NULL, msg |-> NULL, intent |-> None.intent,
   toChain |-> NULL, route |-> None.route, validation |-> None.verdict,
   exec |-> None.pending, resp |-> None.resp, log |-> <<>>]

VARIABLES
  cfg,             \* config.TOKENS: the chains with configured tokens
  activeSessions,  \* sessionId -> session
  tasks,           \* the handleUserMessage calls in flight
  nextId,          \* identity of the next pendingTransaction object
  events,          \* inbound events received so far
  dispatchLog,     \* the calls of executeTransfer, in order
  lastPreview,     \* sessionId -> the pendingTransaction last stored
  cancelled,       \* ids of the pendingTransactions a reply cancelled
  affirmed,        \* affirmative replies received in awaiting_confirmation
  activeAlerts,    \* the alert registry, in insertion order
  ticks,           \* the runs of the polling callback
  triggerLog,      \* the calls of onAlertTriggered, in order
  clock,           \* Date.now() of the last registration
  registered,      \* alert objects created so far
  calc,            \* a call of a pure function: its input and its result
  paymentRecords,  \* x402: nonce -> payment request
  payCalls,        \* x402: the verifyPayment calls in flight
  payNow,          \* x402: Date.now()
  buttons          \* the confirm buttons sent to the chats and their presses

alertVars == <<activeAlerts, ticks, triggerLog, clock, registered>>

auxVars == <<calc, paymentRecords, payCalls, payNow, buttons>>

vars ==
  <<cfg, activeSessions, tasks, nextId, events, dispatchLog, lastPreview,
    cancelled, affirmed, alertVars, auxVars>>

createSession ==
  [state |-> "idle", history |-> {}, pendingTransaction |-> None.pending,
   alerts |-> <<>>]

SessionOf(sid) ==
  IF sid \in DOMAIN activeSessions THEN activeSessions[sid] ELSE createSession

PutSession(sid, session) ==
  [x \in (DOMAIN activeSessions) \cup {sid} |->
     IF x = sid THEN session ELSE activeSessions[x]]

Done(task, resp) ==
  [FreeTask EXCEPT !.pc = "done", !.sid = task.sid, !.msg = task.msg,
                   !.resp = resp, !.log = task.log]

\* BRIDGE_CONTRACTS[executionMethod]?.[chain] is set
getBridgeContractAddress(executionMethod, chain) ==
  \/ executionMethod = "across_relay" /\ chain \in {"celo", "base", "ethereum"}
  \/ executionMethod = "axelar_gmp" /\ chain = "celo"
  \/ executionMethod = "celer_cbridge" /\ chain = "celo"

ExecutionMethods ==
  {"across_relay", "wormhole_ntt", "axelar_gmp", "celer_cbridge",
   "layerzero_stargate"}

\* the catch block of handleUserMessage
catchHandler(session) == [session EXCEPT !.state = "idle"]

\* variant: the state is left as it was
catchExecute_stuck(session) == session

\* the catch block of executeTransfer, up to its await of explainError
catchExecute(session) == [session EXCEPT !.state = "idle"]

\* the end of the try block of executeTransfer
finishExecute(session) ==
  [session EXCEPT !.state = "idle", !.pendingTransaction = None.pending]

\* executeTransfer up to its first await: the outcome is "throw" (the
\* destructuring of a null pendingTransaction, outside the try block),
\* "caught" (an error inside the try block) or "approve" (the approval
\* transaction is sent)
executeTransferStart(c, session) ==
  LET pt == session.pendingTransaction
  IN IF pt = None.pending THEN "throw"
     ELSE IF \/ ~TokenConfigured(c, pt.intent.fromChain, pt.intent.token)
             \/ ~getBridgeContractAddress(pt.bridgeQuote.executionMethod,
                                          pt.intent.fromChain)
       THEN "caught"
     ELSE "approve"

\* variant: the state is left as it was
markExecuting_unmarked(session) == session

\* session.state = "executing" of handleConfirmation
markExecuting(session) == [session EXCEPT !.state = "executing"]

\* variant: the session is left as it was
cancelPending_kept(session) == session

\* variant: the transfer is dropped and the state is left as it was
cancelPending_stateKept(session) ==
  [session EXCEPT !.pendingTransaction = None.pending]

\* the isNo branch of handleConfirmation
cancelPending(session) ==
  [session EXCEPT !.state = "idle", !.pendingTransaction = None.pending]

\* variant: a negative reply executes as well
handleConfirmation_anyDecision(session, m) ==
  IF IsYes[m] \/ IsNo[m] THEN "execute" ELSE "reprompt"

\* variant: a reply that is neither cancels
handleConfirmation_cancelOther(session, m) ==
  IF IsYes[m] THEN "execute" ELSE "cancel"

\* handleConfirmation up to the first await: the decision taken
handleConfirmation(session, m) ==
  IF IsYes[m] THEN "execute" ELSE IF IsNo[m] THEN "cancel" ELSE "reprompt"

\* variant: no hard stop
feeHardStop_never(bridgeQuote, amount) == FALSE

\* feeRatio > 0.25
feeHardStop(bridgeQuote, amount) == RatioGt(bridgeQuote.feeUSD, amount, 25, 100)

\* A response is sent in the continuation that follows the return of
\* handleUserMessage at once; no other step is taken in between.
NoneDone == \A t \in TaskIds : tasks[t].pc # "done"

\* no session exists and no call of handleUserMessage is in flight
NoSessions ==
  /\ activeSessions = [x \in {} |-> createSession]
  /\ tasks = [t \in TaskIds |-> FreeTask]
  /\ nextId = 1
  /\ events = 0
  /\ dispatchLog = <<>>
  /\ lastPreview = [x \in SessionIds |-> None.pending]
  /\ cancelled = {}
  /\ affirmed = 0
  /\ buttons = None.buttons

\* the alert registry is empty and the polling callback is not running
NoAlerts ==
  /\ activeAlerts = <<>>
  /\ ticks = [k \in TickIds |-> None.tick]
  /\ triggerLog = <<>>
  /\ clock = 0
  /\ registered = 0

\* no payment request exists
NoPayments ==
  /\ paymentRecords = <<>>
  /\ payCalls = <<>>
  /\ payNow = 0

Init ==
  /\ cfg \in ConfigChoices
  /\ NoSessions
  /\ NoAlerts
  /\ calc = None.calc
  /\ NoPayments

\* handleUserMessage from the call to its first await, as call t
handleUserMessage(sid, m, t) ==
  /\ NoneDone
  /\ events < MaxEvents
  /\   /\ tasks[t].pc = "free"
       /\ \A u \in TaskIds : u < t => tasks[u].pc # "free"
       /\ affirmed' =
            IF SessionOf(sid).state = "awaiting_confirmation" /\ IsYes[m]
              THEN affirmed + 1 ELSE affirmed
       /\ LET session == SessionOf(sid)
              task == [FreeTask EXCEPT !.sid = sid, !.msg = m]
              decision == handleConfirmation(session, m)
              executing == markExecuting(session)
              start == executeTransferStart(cfg, executing)
          IN IF session.state = "awaiting_confirmation"
             THEN IF decision = "execute"
                  THEN /\ UNCHANGED cancelled
                       /\ dispatchLog' =
                            Append(dispatchLog,
                                   [sid |-> sid,
                                    id |-> session.pendingTransaction.id,
                                    pending |-> session.pendingTransaction])
                       /\ IF start = "throw"
                          THEN /\ activeSessions' =
                                    PutSession(sid, catchHandler(executing))
                               /\ tasks' = [tasks EXCEPT ![t] =
                                    Done(task, Resp("internal_error", "error"))]
                          ELSE IF start = "caught"
                          THEN /\ activeSessions' =
                                    PutSession(sid, catchExecute(executing))
                               /\ tasks' = [tasks EXCEPT ![t] =
                                    [task EXCEPT !.pc = "execExplain",
                                       !.exec = session.pendingTransaction]]
                          ELSE /\ activeSessions' = PutSession(sid, executing)
                               /\ tasks' = [tasks EXCEPT ![t] =
                                    [task EXCEPT !.pc = "approving",
                                       !.exec = session.pendingTransaction]]
                  ELSE IF decision = "cancel"
                  THEN /\ activeSessions' =
                            PutSession(sid, cancelPending(session))
                       /\ tasks' = [tasks EXCEPT ![t] =
                            Done(task, Resp("cancelled", "idle"))]
                       /\ cancelled' =
                            cancelled \cup {session.pendingTransaction.id}
                       /\ UNCHANGED dispatchLog
                  ELSE /\ activeSessions' = PutSession(sid, session)
                       /\ tasks' = [tasks EXCEPT ![t] =
                            Done(task, Resp("reprompt", "awaiting_confirmation"))]
                       /\ UNCHANGED <<dispatchLog, cancelled>>
             ELSE /\ activeSessions' = PutSession(sid, session)
                  /\ tasks' = [tasks EXCEPT ![t] = [task EXCEPT !.pc = "parsing"]]
                  /\ UNCHANGED <<dispatchLog, cancelled>>
  /\ events' = events + 1
  /\ UNCHANGED <<cfg, nextId, lastPreview>>

\* POST /api/message and the bot handlers: an inbound message
Receive(sid, m) ==
  /\ \E t \in TaskIds : handleUserMessage(sid, m, t)
  /\ UNCHANGED <<alertVars, auxVars>>

\* variant: no reply is made
handleClarification_mute(intent) == None.resp

handleClarification(intent) ==
  LET missing == intent.missingFields
  IN IF "toAddress" \in missing /\ "amount" \in missing
       THEN Resp("clarify_both", "idle")
     ELSE IF "toAddress" \in missing THEN Resp("clarify_address", "idle")
     ELSE IF "amount" \in missing THEN Resp("clarify_amount", "idle")
     ELSE IF "token" \in missing THEN Resp("clarify_token", "idle")
     ELSE Resp("clarify_generic", "idle")

\* variant: the alert is stored as a transfer to confirm
orchestratorRegisterAlert_confirming(session, intent) ==
  [session EXCEPT !.alerts = Append(@, intent),
                  !.state = "awaiting_confirmation"]

\* registerAlert of the orchestrator: session.alerts.push({...intent})
orchestratorRegisterAlert(session, intent) ==
  [session EXCEPT !.alerts = Append(@, intent)]

\* handleUserMessage from the resolution of parseIntent to the next await
ParseDone(t) ==
  /\ NoneDone
  /\ tasks[t].pc = "parsing"
  /\ \E reply \in ResolverReplies(tasks[t].msg) :
       LET task == tasks[t]
           sid == task.sid
           intent == parseIntent(task.msg, reply)
           session == [activeSessions[sid] EXCEPT
                         !.history = @ \cup MessageHints[task.msg]]
       IN CASE intent.type = "transfer" ->
                 \* processTransfer up to the await of getBestBridgeRoute
                 IF intent.toAddress = NullStr
                 THEN /\ activeSessions' =
                           PutSession(sid, catchHandler(session))
                      /\ tasks' = [tasks EXCEPT ![t] =
                           Done(task, Resp("internal_error", "error"))]
                 ELSE LET chainInfo ==
                            detectChainFromAddress(intent.toAddress,
                                                   session.history)
                      IN /\ activeSessions' = PutSession(sid, session)
                         /\ tasks' = [tasks EXCEPT ![t] =
                              IF chainInfo.chain = "unknown"
                                THEN Done(task, Resp("unknown_chain", "idle"))
                              ELSE IF chainInfo.unsupported
                                THEN Done(task, Resp("unsupported_chain", "idle"))
                              ELSE [task EXCEPT !.pc = "routing",
                                      !.intent = intent,
                                      !.toChain = chainInfo.chain]]
            [] intent.type = "alert" ->
                 /\ activeSessions' =
                      PutSession(sid, orchestratorRegisterAlert(session, intent))
                 /\ tasks' = [tasks EXCEPT ![t] =
                      Done(task, Resp("alert_registered", "idle"))]
            [] intent.type = "query" ->
                 \* handleQuery up to the await of getBestBridgeRoute
                 /\ activeSessions' = PutSession(sid, session)
                 /\ tasks' = [tasks EXCEPT ![t] =
                      IF intent.queryType = "fee_check"
                        THEN [task EXCEPT !.pc = "querying", !.intent = intent]
                        ELSE Done(task, Resp("query_help", "idle"))]
            [] intent.type = "clarification_needed" ->
                 /\ activeSessions' = PutSession(sid, session)
                 /\ tasks' = [tasks EXCEPT ![t] =
                      Done(task, handleClarification(intent))]
            [] OTHER ->
                 /\ activeSessions' = PutSession(sid, session)
                 /\ tasks' = [tasks EXCEPT ![t] =
                      Done(task, Resp("greeting", "idle"))]
  /\ UNCHANGED <<cfg, nextId, events, dispatchLog, lastPreview, cancelled,
               affirmed, alertVars, auxVars>>

\* What the four HTTP endpoints (Across, Wormhole, Axelar, Celer) do during
\* one getBestBridgeRoute
FetchScenarios ==
  {<<Fetch.Plain, Fetch.Plain, Fetch.Plain, Fetch.Plain>>,
   <<Fetch.Plain, Fetch.Costly, Fetch.NotOk, Fetch.Throw>>,
   <<Fetch.Throw, Fetch.NotOk, Fetch.Plain, Fetch.NotOk>>,
   <<Fetch.Throw, Fetch.Throw, Fetch.Throw, Fetch.Throw>>}

\* the five provider calls of one getBestBridgeRoute, settled
SettledQuotes(p) ==
  { <<getAcrossQuote(cfg, p, n[1]), getWormholeQuote(cfg, p, n[2]),
      getAxelarQuote(cfg, p, n[3]), getCelerQuote(cfg, p, n[4]),
      getLayerZeroQuote(cfg, p, Fetch.Plain)>> : n \in FetchScenarios }

\* processTransfer from the resolution of getBestBridgeRoute to the next
\* await
RouteDone(t) ==
  /\ NoneDone
  /\ tasks[t].pc = "routing"
  /\ LET task == tasks[t]
         p == [fromChain |-> task.intent.fromChain, toChain |-> task.toChain,
               token |-> task.intent.token, amount |-> task.intent.amount,
               priority |-> task.intent.priority]
     IN \E settled \in SettledQuotes(p) :
          LET route == getBestBridgeRoute(p, settled)
          IN tasks' = [tasks EXCEPT ![t] =
               IF route.best = None.quote
                 THEN Done(task, Resp(IF task.toChain = "solana"
                                        THEN "no_route_solana" ELSE "no_route",
                                      "idle"))
               ELSE [task EXCEPT !.pc = "validating", !.route = route]]
  /\ UNCHANGED <<cfg, activeSessions, nextId, events, dispatchLog, lastPreview,
               cancelled, affirmed, alertVars, auxVars>>

\* handleQuery from the resolution of getBestBridgeRoute
QueryDone(t) ==
  /\ NoneDone
  /\ tasks[t].pc = "querying"
  /\ LET task == tasks[t]
         p == [fromChain |-> "celo", toChain |-> task.intent.chain,
               token |-> task.intent.token, amount |-> 100 * MoneyScale,
               priority |-> "cheapest"]
     IN \E settled \in SettledQuotes(p) :
          tasks' = [tasks EXCEPT ![t] =
            Done(task, Resp(IF getBestBridgeRoute(p, settled).best = None.quote
                              THEN "no_fee_route" ELSE "fee_info", "idle"))]
  /\ UNCHANGED <<cfg, activeSessions, nextId, events, dispatchLog, lastPreview,
               cancelled, affirmed, alertVars, auxVars>>

\* processTransfer from the resolution of validateTransfer to the next await
ValidateDone(t) ==
  /\ NoneDone
  /\ tasks[t].pc = "validating"
  /\ LET task == tasks[t]
         bridgeQuote == task.route.best
         validation ==
           validateTransfer([task.intent EXCEPT !.toChain = task.toChain],
                            bridgeQuote)
     IN tasks' = [tasks EXCEPT ![t] =
          IF ~validation.valid
            THEN [task EXCEPT !.pc = "explaining", !.validation = validation]
          ELSE IF feeHardStop(bridgeQuote, task.intent.amount)
            THEN Done(task, Resp("hard_stop", "idle"))
          ELSE [task EXCEPT !.pc = "previewing", !.validation = validation]]
  /\ UNCHANGED <<cfg, activeSessions, nextId, events, dispatchLog, lastPreview,
               cancelled, affirmed, alertVars, auxVars>>

\* processTransfer from the resolution of explainError
ExplainDone(t) ==
  /\ NoneDone
  /\ tasks[t].pc = "explaining"
  /\ tasks' = [tasks EXCEPT ![t] =
       Done(tasks[t], Resp("validation_failed", "idle"))]
  /\ UNCHANGED <<cfg, activeSessions, nextId, events, dispatchLog, lastPreview,
               cancelled, affirmed, alertVars, auxVars>>

\* the pendingTransaction object processTransfer stores
newPending(id, task) ==
  [id |-> id, intent |-> [task.intent EXCEPT !.toChain = task.toChain],
   bridgeQuote |-> task.route.best, validation |-> task.validation,
   allQuotes |-> task.route.all]

\* the session as processTransfer leaves it
storePending(session, pending, previewHints) ==
  [session EXCEPT !.pendingTransaction = pending,
                  !.state = "awaiting_confirmation",
                  !.history = @ \cup previewHints]

\* processTransfer from the resolution of generateTransactionPreview
PreviewDone(t) ==
  /\ NoneDone
  /\ tasks[t].pc = "previewing"
  /\ \E local \in BOOLEAN :
       LET task == tasks[t]
           sid == task.sid
           pending == newPending(nextId, task)
       IN /\ activeSessions' =
               PutSession(sid,
                 storePending(activeSessions[sid], pending,
                   generateTransactionPreview(local, task.toChain)))
          /\ tasks' = [tasks EXCEPT ![t] =
               [Done(task, Resp("preview", "awaiting_confirmation"))
                  EXCEPT !.exec = [id |-> nextId]]]
          /\ lastPreview' = [lastPreview EXCEPT ![sid] = pending]
  /\ nextId' = nextId + 1
  /\ UNCHANGED <<cfg, events, dispatchLog, cancelled, affirmed, alertVars, auxVars>>

\* variant: the transfer is submitted as soon as the approval is sent
executeNext_noWait(step, ok, executionMethod) ==
  IF ~ok THEN "execExplain"
  ELSE IF step = "submitting" THEN "receipt"
  ELSE IF executionMethod \in ExecutionMethods THEN "submitting"
  ELSE "execExplain"

\* the try block of executeTransfer from the settling of one await to the
\* next: where control goes when the awaited step succeeded (ok) or threw
executeNext(step, ok, executionMethod) ==
  IF ~ok THEN "execExplain"
  ELSE CASE step = "approving" -> "approveWait"
         [] step = "approveWait" ->
              IF executionMethod \in ExecutionMethods
                THEN "submitting" ELSE "execExplain"
         [] OTHER -> "receipt"

\* the effect of the settling of the step call t of executeTransfer awaits
ExecStep(t, ok) ==
  LET task == [tasks[t] EXCEPT !.log = Append(@, <<tasks[t].pc, ok>>)]
      next == executeNext(tasks[t].pc, ok,
                          tasks[t].exec.bridgeQuote.executionMethod)
  IN IF next = "receipt"
     THEN /\ tasks' = [tasks EXCEPT ![t] = Done(task, Resp("receipt", "idle"))]
          /\ activeSessions' =
               PutSession(task.sid, finishExecute(activeSessions[task.sid]))
     ELSE IF next = "execExplain"
     THEN /\ tasks' = [tasks EXCEPT ![t] = [task EXCEPT !.pc = next]]
          /\ activeSessions' =
               PutSession(task.sid, catchExecute(activeSessions[task.sid]))
     ELSE /\ tasks' = [tasks EXCEPT ![t] = [task EXCEPT !.pc = next]]
          /\ UNCHANGED activeSessions

\* executeTransfer: the approval transaction is sent, or approve rejects
ApproveDone(t) ==
  /\ NoneDone
  /\ tasks[t].pc = "approving"
  /\ \E ok \in BOOLEAN : ExecStep(t, ok)
  /\ UNCHANGED <<cfg, nextId, events, dispatchLog, lastPreview, cancelled,
               affirmed, alertVars, auxVars>>

\* executeTransfer: approveTx.wait() settles; on success the transfer of
\* the quote's execution method is started
ApproveWaitDone(t) ==
  /\ NoneDone
  /\ tasks[t].pc = "approveWait"
  /\ \E ok \in BOOLEAN : ExecStep(t, ok)
  /\ UNCHANGED <<cfg, nextId, events, dispatchLog, lastPreview, cancelled,
               affirmed, alertVars, auxVars>>

\* executeTransfer: the bridge transfer settles
SubmitDone(t) ==
  /\ NoneDone
  /\ tasks[t].pc = "submitting"
  /\ \E ok \in BOOLEAN : ExecStep(t, ok)
  /\ UNCHANGED <<cfg, nextId, events, dispatchLog, lastPreview, cancelled,
               affirmed, alertVars, auxVars>>

\* executeTransfer: explainError of the catch block settles
ExecExplainDone(t) ==
  /\ NoneDone
  /\ tasks[t].pc = "execExplain"
  /\ tasks' = [tasks EXCEPT ![t] =
       Done(tasks[t], Resp("transfer_failed", "error"))]
  /\ UNCHANGED <<cfg, activeSessions, nextId, events, dispatchLog, lastPreview,
               cancelled, affirmed, alertVars, auxVars>>

\* POST /api/message: res.json(response)
Respond(t) ==
  /\ tasks[t].pc = "done"
  /\ \A k \in TickIds : ticks[k].task # t
  /\ tasks' = [tasks EXCEPT ![t] = FreeTask]
  /\ UNCHANGED <<cfg, activeSessions, nextId, events, dispatchLog, lastPreview,
               cancelled, affirmed, alertVars, auxVars>>

\* ------------------------------------------------------------------------
\* layerzero.js: the alert engine; server.js: the polling callback
\* ------------------------------------------------------------------------
\* the transfer an auto-execute alert describes
TransferDetails ==
  [type |-> "transfer", fromChain |-> "celo", fromAddress |-> NullStr,
   toAddress |-> EvmAddr1, token |-> "USDC", amount |-> 50 * MoneyScale,
   toChain |-> "base", priority |-> "cheapest"]

\* alert intents as the intent prompt describes them; the third is an
\* alert on a price with no token named
AlertIntents ==
  {[type |-> "alert", condition |-> "fee_below", threshold |-> MoneyScale,
    token |-> "USDC", action |-> "notify", transferDetails |-> None.intent],
   [type |-> "alert", condition |-> "fee_below", threshold |-> MoneyScale,
    token |-> "USDC", action |-> "transfer",
    transferDetails |-> TransferDetails],
   [type |-> "alert", condition |-> "price_below", threshold |-> MoneyScale,
    token |-> NULL, action |-> "notify", transferDetails |-> None.intent]}

\* what the fee, price or gas source reports: nothing, 0.80 or 1.20
AlertReadings == {NoNum, 8000, 12000}

\* the position of alertId in the registry, 0 if absent
RECURSIVE alertIndex(_, _, _)
alertIndex(alerts, alertId, i) ==
  IF i > Len(alerts) THEN 0
  ELSE IF alerts[i].alertId = alertId THEN i
  ELSE alertIndex(alerts, alertId, i + 1)

\* registerAlert of the engine: activeAlerts.set(alertId, {...})
registerAlert(alerts, sessionId, alertIntent, now, obj) ==
  LET alertId == <<sessionId, now>>
      alert == [alertId |-> alertId, obj |-> obj, sessionId |-> sessionId,
                condition |-> alertIntent.condition,
                threshold |-> alertIntent.threshold,
                token |-> alertIntent.token, action |-> alertIntent.action,
                transferDetails |-> alertIntent.transferDetails,
                triggered |-> FALSE]
      at == alertIndex(alerts, alertId, 1)
  IN IF at = 0 THEN Append(alerts, alert) ELSE [alerts EXCEPT ![at] = alert]

\* getTokenPrice: the lookup of the token symbol precedes the try block
getTokenPrice(tokenSymbol, reading) ==
  IF tokenSymbol = NULL THEN "throw"
  ELSE IF tokenSymbol \notin {"USDT", "USDC", "CELO", "USDm", "ETH"}
    THEN "null"
  ELSE IF reading = NoNum THEN "null" ELSE "number"

\* checkPriceAlert, given what the source it awaits reports
checkPriceAlert(alert, reading) ==
  IF alert.triggered THEN "not_met"
  ELSE CASE alert.condition = "fee_below" ->
              IF reading # NoNum /\ reading < alert.threshold
                THEN "met" ELSE "not_met"
         [] alert.condition = "price_below" ->
              LET price == getTokenPrice(alert.token, reading)
              IN IF price = "throw" THEN "throw"
                 ELSE IF price = "number" /\ reading < alert.threshold
                   THEN "met" ELSE "not_met"
         [] alert.condition = "price_above" ->
              LET price == getTokenPrice(alert.token, reading)
              IN IF price = "throw" THEN "throw"
                 ELSE IF price = "number" /\ reading > alert.threshold
                   THEN "met" ELSE "not_met"
         [] alert.condition = "gas_below" ->
              IF reading # NoNum /\ reading < alert.threshold
                THEN "met" ELSE "not_met"
         [] OTHER -> "not_met"

\* the first entry at or after position i the loop does not skip, 0 if none
RECURSIVE skipTriggered(_, _)
skipTriggered(alerts, i) ==
  IF i > Len(alerts) THEN 0
  ELSE IF alerts[i].triggered THEN skipTriggered(alerts, i + 1)
  ELSE i

\* the for loop of the polling callback from position i to its next await
loopFrom(alerts, i) ==
  LET j == skipTriggered(alerts, i)
  IN IF j = 0 THEN None.tick
     ELSE [pc |-> "checking", index |-> j, alert |-> alerts[j], task |-> 0]

\* alert.triggered = true on the alert object obj
markTriggered(alerts, obj) ==
  [i \in 1..Len(alerts) |->
     IF alerts[i].obj = obj THEN [alerts[i] EXCEPT !.triggered = TRUE]
     ELSE alerts[i]]

\* getAlertsForSession: the entries of the registry for a session
getAlertsForSession(alerts, sessionId) ==
  SelectSeq(alerts, LAMBDA a : a.sessionId = sessionId)

\* registerAlert is called
RegisterAlert(sid, alertIntent) ==
  /\ NoneDone
  /\ registered < MaxAlerts
  /\ \E now \in {clock, clock + 1} :
       /\ activeAlerts' =
            registerAlert(activeAlerts, sid, alertIntent, now, registered + 1)
       /\ clock' = now
  /\ registered' = registered + 1
  /\ UNCHANGED <<cfg, activeSessions, tasks, nextId, events, dispatchLog,
                 lastPreview, cancelled, affirmed, ticks, triggerLog,
                 auxVars>>

\* the interval fires: the callback runs to its first await
TickStart(k) ==
  /\ NoneDone
  /\ ticks[k].pc = "idle"
  /\ \A j \in TickIds : j < k => ticks[j].pc # "idle"
  /\ ticks' = [ticks EXCEPT ![k] = loopFrom(activeAlerts, 1)]
  /\ UNCHANGED <<cfg, activeSessions, tasks, nextId, events, dispatchLog,
                 lastPreview, cancelled, affirmed, activeAlerts, triggerLog,
                 clock, registered, auxVars>>

\* checkPriceAlert settles; the callback runs to its next await
TickChecked(k) ==
  /\ NoneDone
  /\ ticks[k].pc = "checking"
  /\ \E reading \in AlertReadings :
       LET tick == ticks[k]
           conditionMet == checkPriceAlert(tick.alert, reading)
       IN IF conditionMet = "throw"
          THEN /\ ticks' = [ticks EXCEPT ![k] = None.tick]
               /\ UNCHANGED <<activeAlerts, triggerLog>>
          ELSE IF conditionMet = "met"
          THEN /\ activeAlerts' = markTriggered(activeAlerts, tick.alert.obj)
               /\ triggerLog' =
                    Append(triggerLog,
                           [alertId |-> tick.alert.alertId,
                            obj |-> tick.alert.obj, tick |-> k])
               /\ ticks' = [ticks EXCEPT ![k].pc = "notifying"]
          ELSE /\ ticks' = [ticks EXCEPT ![k] =
                    loopFrom(activeAlerts, tick.index + 1)]
               /\ UNCHANGED <<activeAlerts, triggerLog>>
  /\ UNCHANGED <<cfg, activeSessions, tasks, nextId, events, dispatchLog,
                 lastPreview, cancelled, affirmed, clock, registered, auxVars>>

\* notifyAlertTriggered settles; an auto-execute alert sends "yes"
TickNotified(k) ==
  /\ ticks[k].pc = "notifying"
  /\ LET tick == ticks[k]
     IN IF tick.alert.action = "transfer"
        THEN \E t \in TaskIds :
               /\ handleUserMessage(tick.alert.sessionId, "yes", t)
               /\ ticks' = [ticks EXCEPT ![k].pc = "confirming",
                                         ![k].task = t]
        ELSE /\ NoneDone
             /\ ticks' = [ticks EXCEPT ![k] =
                  loopFrom(activeAlerts, tick.index + 1)]
             /\ UNCHANGED <<cfg, activeSessions, tasks, nextId, events,
                            dispatchLog, lastPreview, cancelled, affirmed>>
  /\ UNCHANGED <<activeAlerts, triggerLog, clock, registered, auxVars>>

\* handleUserMessage of the callback settles; auto_transfer is emitted
TickConfirmed(k) ==
  /\ ticks[k].pc = "confirming"
  /\ tasks[ticks[k].task].pc = "done"
  /\ tasks' = [tasks EXCEPT ![ticks[k].task] = FreeTask]
  /\ ticks' = [ticks EXCEPT ![k] = loopFrom(activeAlerts, ticks[k].index + 1)]
  /\ UNCHANGED <<cfg, activeSessions, nextId, events, dispatchLog,
                 lastPreview, cancelled, affirmed, activeAlerts, triggerLog,
                 clock, registered, auxVars>>

Next ==
  \/ \E sid \in SessionIds, m \in MessageIds : Receive(sid, m)
  \/ \E t \in TaskIds : ParseDone(t)
  \/ \E t \in TaskIds : RouteDone(t)
  \/ \E t \in TaskIds : QueryDone(t)
  \/ \E t \in TaskIds : ValidateDone(t)
  \/ \E t \in TaskIds : ExplainDone(t)
  \/ \E t \in TaskIds : PreviewDone(t)
  \/ \E t \in TaskIds : ApproveDone(t)
  \/ \E t \in TaskIds : ApproveWaitDone(t)
  \/ \E t \in TaskIds : SubmitDone(t)
  \/ \E t \in TaskIds : ExecExplainDone(t)
  \/ \E t \in TaskIds : Respond(t)

Spec == Init /\ [][Next]_vars

\* Every promise executeTransfer awaits settles, and the continuation that
\* sends a response runs.
FairSpec ==
  /\ Spec
  /\ \A t \in TaskIds :
       /\ WF_vars(ApproveDone(t))
       /\ WF_vars(ApproveWaitDone(t))
       /\ WF_vars(SubmitDone(t))
       /\ WF_vars(ExecExplainDone(t))
       /\ WF_vars(Respond(t))

\* a user's message arrives while alerts are watched
UserSends(sid, m) == events < MaxUserEvents /\ Receive(sid, m)

AlertNext ==
  \/ \E sid \in SessionIds, a \in AlertIntents : RegisterAlert(sid, a)
  \/ \E k \in TickIds : TickStart(k)
  \/ \E k \in TickIds : TickChecked(k)
  \/ \E k \in TickIds : TickNotified(k)
  \/ \E k \in TickIds : TickConfirmed(k)
  \/ \E sid \in SessionIds, m \in {"sendBase"} : UserSends(sid, m)
  \/ \E t \in TaskIds : ParseDone(t)
  \/ \E t \in TaskIds : RouteDone(t)
  \/ \E t \in TaskIds : ValidateDone(t)
  \/ \E t \in TaskIds : PreviewDone(t)
  \/ \E t \in TaskIds : ApproveDone(t)
  \/ \E t \in TaskIds : ApproveWaitDone(t)
  \/ \E t \in TaskIds : SubmitDone(t)
  \/ \E t \in TaskIds : ExecExplainDone(t)
  \/ \E t \in TaskIds : Respond(t)

\* the alerts are watched on a deployment with every token configured
AlertInit == Init /\ cfg = AllChains

AlertSpec == AlertInit /\ [][AlertNext]_vars

\* a method none of the cases of executeTransfer names
UnlistedMethod == "hop_amm"

\* a quote as an adapter of the aggregator returns it, for a given method
QuoteWith(executionMethod) ==
  [bridge |-> "Bridge", feeUSD |-> (45 * MoneyScale) \div 100,
   estimatedMinutes |-> 3, successRate |-> 97, liquidityUSD |-> 50000000,
   executionMethod |-> executionMethod, executionReady |-> TRUE]

\* the session after processTransfer stored the preview of a transfer whose
\* best quote has the given method
PreviewedWith(executionMethod) ==
  storePending(createSession,
               [id |-> 1, intent |-> TransferDetails,
                bridgeQuote |-> QuoteWith(executionMethod),
                validation |-> [None.verdict EXCEPT !.valid = TRUE,
                                                 !.chain = "base"],
                allQuotes |-> <<QuoteWith(executionMethod)>>],
               {Words.celo, Words.base})

\* a previewed transfer awaits its confirmation; the aggregator may have an
\* adapter whose method the dispatcher does not know
ExecInit ==
  /\ cfg \in ConfigChoices
  /\ \E executionMethod \in ExecutionMethods \cup {UnlistedMethod} :
       /\ activeSessions = [x \in SessionIds |-> PreviewedWith(executionMethod)]
       /\ lastPreview =
            [x \in SessionIds |->
               PreviewedWith(executionMethod).pendingTransaction]
  /\ tasks = [t \in TaskIds |-> FreeTask]
  /\ nextId = 2
  /\ events = 0
  /\ dispatchLog = <<>>
  /\ cancelled = {}
  /\ affirmed = 0
  /\ buttons = None.buttons
  /\ activeAlerts = <<>>
  /\ ticks = [k \in TickIds |-> None.tick]
  /\ triggerLog = <<>>
  /\ clock = 0
  /\ registered = 0
  /\ calc = None.calc
  /\ paymentRecords = <<>>
  /\ payCalls = <<>>
  /\ payNow = 0

ExecNext ==
  \/ \E sid \in SessionIds, m \in {"yes", "no", "hmm"} : Receive(sid, m)
  \/ \E t \in TaskIds : ParseDone(t)
  \/ \E t \in TaskIds : ApproveDone(t)
  \/ \E t \in TaskIds : ApproveWaitDone(t)
  \/ \E t \in TaskIds : SubmitDone(t)
  \/ \E t \in TaskIds : ExecExplainDone(t)
  \/ \E t \in TaskIds : Respond(t)

ExecSpec == ExecInit /\ [][ExecNext]_vars

\* ------------------------------------------------------------------------
\* bridgeRouter.js as a function of the provider results
\* ------------------------------------------------------------------------
RouteRequest(priority) ==
  [fromChain |-> "ethereum", toChain |-> "base", token |-> "USDC",
   amount |-> 100 * MoneyScale, priority |-> priority]

\* quotes as the five adapters return them for the request
QuotePool ==
  {getAcrossQuote(AllChains, RouteRequest("cheapest"), Fetch.Plain),
   getWormholeQuote(AllChains, RouteRequest("cheapest"), Fetch.Costly),
   getAxelarQuote(AllChains, RouteRequest("cheapest"), Fetch.Costly),
   getCelerQuote(AllChains, RouteRequest("cheapest"), Fetch.Plain),
   getLayerZeroQuote(AllChains, RouteRequest("cheapest"), Fetch.Plain)}

\* the five provider calls have settled, each with a quote or with none
RouteInit ==
  /\ cfg = AllChains
  /\ NoSessions
  /\ NoAlerts
  /\ NoPayments
  /\ \E priority \in {"cheapest", "fastest", "safest", "balanced"},
        settled \in [1..5 -> QuotePool \cup {None.quote}] :
       calc = [fn |-> "input", priority |-> priority, settled |-> settled,
               route |-> None.route, argument |-> <<>>, ranked |-> <<>>]

\* variant: quotes.sort(...) sorts the caller's array in place
rankQuotesArgument_inPlace(quotes, priority) == rankQuotes(quotes, priority)

\* [...quotes].sort(...): the caller's array after the call of rankQuotes
rankQuotesArgument(quotes, priority) == quotes

\* getBestBridgeRoute is applied to the settled results
Aggregate ==
  /\ calc.fn = "input"
  /\ calc' = [calc EXCEPT
                !.fn = "getBestBridgeRoute",
                !.route = getBestBridgeRoute(RouteRequest(calc.priority),
                                             calc.settled)]
  /\ UNCHANGED <<cfg, activeSessions, tasks, nextId, events, dispatchLog,
                 lastPreview, cancelled, affirmed, alertVars, buttons, paymentRecords,
                 payCalls, payNow>>

\* rankQuotes is applied to the quotes among the settled results
Rank ==
  /\ calc.fn = "input"
  /\ LET quotes == SelectSeq(calc.settled, LAMBDA q : q # None.quote)
     IN calc' = [calc EXCEPT
                   !.fn = "rankQuotes",
                   !.argument = rankQuotesArgument(quotes, calc.priority),
                   !.ranked = rankQuotes(quotes, calc.priority)]
  /\ UNCHANGED <<cfg, activeSessions, tasks, nextId, events, dispatchLog,
                 lastPreview, cancelled, affirmed, alertVars, buttons, paymentRecords,
                 payCalls, payNow>>

RouteNext == Aggregate \/ Rank

RouteSpec == RouteInit /\ [][RouteNext]_vars

\* ------------------------------------------------------------------------
\* getBestBridgeRoute while its five adapter promises are pending
\* ------------------------------------------------------------------------
\* the adapter calls in the order of the Promise.allSettled array
adapterQuote(i, p, net) ==
  CASE i = 1 -> getAcrossQuote(cfg, p, net)
    [] i = 2 -> getWormholeQuote(cfg, p, net)
    [] i = 3 -> getAxelarQuote(cfg, p, net)
    [] i = 4 -> getCelerQuote(cfg, p, net)
    [] i = 5 -> getLayerZeroQuote(cfg, p, Fetch.Plain)

\* getBestBridgeRoute has called the five adapters; hung is the adapter
\* whose HTTP endpoint never answers (0: every endpoint answers)
PendingInit ==
  /\ cfg = AllChains
  /\ NoSessions
  /\ NoAlerts
  /\ NoPayments
  /\ \E hung \in 0..4 :
       calc = [fn |-> "allSettled", priority |-> "cheapest", hung |-> hung,
               pending |-> 1..5, settled |-> [i \in 1..5 |-> None.quote],
               route |-> None.route]

\* the await fetch(url) of adapter i resolves or rejects and the adapter's
\* promise settles
AdapterSettles(i) ==
  /\ calc.fn = "allSettled"
  /\ i \in calc.pending
  /\ i # calc.hung
  /\ \E net \in {Fetch.Throw, Fetch.NotOk, Fetch.Plain, Fetch.Costly} :
       calc' = [calc EXCEPT
                  !.pending = @ \ {i},
                  !.settled[i] =
                     adapterQuote(i, RouteRequest(calc.priority), net)]
  /\ UNCHANGED <<cfg, activeSessions, tasks, nextId, events, dispatchLog,
                 lastPreview, cancelled, affirmed, alertVars, buttons, paymentRecords,
                 payCalls, payNow>>

\* Promise.allSettled resolves once every promise has settled, and
\* getBestBridgeRoute runs to its return
AllSettled ==
  /\ calc.fn = "allSettled"
  /\ calc.pending = {}
  /\ calc' = [calc EXCEPT
                !.fn = "getBestBridgeRoute",
                !.route = getBestBridgeRoute(RouteRequest(calc.priority),
                                             calc.settled)]
  /\ UNCHANGED <<cfg, activeSessions, tasks, nextId, events, dispatchLog,
                 lastPreview, cancelled, affirmed, alertVars, buttons, paymentRecords,
                 payCalls, payNow>>

PendingNext == (\E i \in 1..5 : AdapterSettles(i)) \/ AllSettled

\* an endpoint that answers is answered eventually, and the event loop runs
\* the continuation of a settled promise
PendingSpec ==
  /\ PendingInit
  /\ [][PendingNext]_vars
  /\ \A i \in 1..5 : WF_vars(AdapterSettles(i))
  /\ WF_vars(AllSettled)

\* ------------------------------------------------------------------------
\* validator.js as a function of the intent and the chosen quote
\* ------------------------------------------------------------------------
\* a transfer intent with a recipient address, and the best quote or null
ValidateInit ==
  /\ cfg = AllChains
  /\ NoSessions
  /\ NoAlerts
  /\ NoPayments
  /\ \E toAddress \in {EvmAddr1, SolAddr1, <<"b","o","b">>},
        token \in {"USDC", "USDm", "CELO"},
        amount \in {NoNum, 0, MoneyScale \div 2, 100 * MoneyScale,
                    500 * MoneyScale},
        toChain \in {"celo", "base", "solana", "near"},
        fromAddress \in {NullStr, EvmAddr1},
        bridgeQuote \in QuotePool \cup {None.quote} :
       calc = [fn |-> "input",
               intent |-> [type |-> "transfer", toAddress |-> toAddress,
                           token |-> token, amount |-> amount,
                           fromChain |-> "celo", toChain |-> toChain,
                           fromAddress |-> fromAddress],
               bridgeQuote |-> bridgeQuote,
               verdict |-> None.verdict]

\* validateTransfer is applied to the intent and the quote
Validate ==
  /\ calc.fn = "input"
  /\ calc' = [calc EXCEPT
                !.fn = "validateTransfer",
                !.verdict = validateTransfer(calc.intent, calc.bridgeQuote)]
  /\ UNCHANGED <<cfg, activeSessions, tasks, nextId, events, dispatchLog,
                 lastPreview, cancelled, affirmed, alertVars, buttons, paymentRecords,
                 payCalls, payNow>>

ValidateSpec == ValidateInit /\ [][Validate]_vars

\* ------------------------------------------------------------------------
\* x402Payment.js and the payment routes of the server
\* ------------------------------------------------------------------------
\* Time is counted in minutes.  The Celo chain as the RPC provider reports
\* it: the receipt of each transaction hash (status 0: none), and the
\* Transfer events to the fee wallet of the USDC contract in each block,
\* with the value in units of the service fee.
Chain ==
  [receipts |->
     [txPaid |-> [status |-> 1, blockNumber |-> 1],
      txFailed |-> [status |-> 0, blockNumber |-> 2],
      txUnknown |-> [status |-> 0 - 1, blockNumber |-> 0]],
   events |->
     [b \in 0..2 |->
        IF b = 1 THEN <<[from |-> "0xU1", value |-> 1]>> ELSE <<>>]]

\* paymentRecords.set(nonce, record): the Map keeps the place of a key it has
MapSet(records, record) ==
  IF \E i \in 1..Len(records) : records[i].nonce = record.nonce
    THEN [i \in 1..Len(records) |->
            IF records[i].nonce = record.nonce THEN record ELSE records[i]]
    ELSE Append(records, record)

hasRecentPayment(records, sessionId, now) ==
  \E i \in 1..Len(records) :
    /\ records[i].sessionId = sessionId
    /\ records[i].paid
    /\ now - records[i].verifiedAt < 5

\* the nonce is x402_${sessionId}_${Date.now()}; the request expires after
\* 10 minutes
createPaymentRequest(records, sessionId, userAddress, now) ==
  MapSet(records,
         [nonce |-> <<sessionId, now>>, sessionId |-> sessionId,
          userAddress |-> userAddress, expiresAt |-> now + 10,
          paid |-> FALSE, verifiedTxHash |-> NULL, verifiedAt |-> 0])

\* POST /api/payment/request with a body naming both fields, for a session
\* without a recent payment (with one, the route answers alreadyPaid and
\* changes nothing)
PaymentRequest(sessionId, userAddress) ==
  /\ Len(paymentRecords) < MaxRequests
  /\ ~hasRecentPayment(paymentRecords, sessionId, payNow)
  /\ paymentRecords' =
       createPaymentRequest(paymentRecords, sessionId, userAddress, payNow)
  /\ UNCHANGED <<cfg, activeSessions, tasks, nextId, events, dispatchLog,
                 lastPreview, cancelled, affirmed, alertVars, buttons, calc, payCalls,
                 payNow>>

\* verifyPayment(nonce, txHash) up to its first await or to its return
verifyPayment(nonce, txHash) ==
  /\ Len(payCalls) < MaxVerifies
  /\ LET found == { i \in 1..Len(paymentRecords) :
                      paymentRecords[i].nonce = nonce }
         call == [nonce |-> nonce, txHash |-> txHash, pc |-> "done",
                  verified |-> FALSE, record |-> None.pending,
                  blockNumber |-> 0]
     IN IF found = {}
          THEN /\ payCalls' = Append(payCalls, call)
               /\ UNCHANGED paymentRecords
        ELSE LET record == paymentRecords[CHOOSE i \in found : TRUE]
             IN IF payNow > record.expiresAt
                  THEN /\ paymentRecords' =
                            SelectSeq(paymentRecords,
                                      LAMBDA r : r.nonce # nonce)
                       /\ payCalls' = Append(payCalls, call)
                ELSE IF record.paid
                  THEN /\ payCalls' =
                            Append(payCalls, [call EXCEPT !.verified = TRUE])
                       /\ UNCHANGED paymentRecords
                ELSE /\ payCalls' =
                          Append(payCalls,
                                 [call EXCEPT !.pc = "getTransactionReceipt",
                                              !.record = record])
                     /\ UNCHANGED paymentRecords
  /\ UNCHANGED <<cfg, activeSessions, tasks, nextId, events, dispatchLog,
                 lastPreview, cancelled, affirmed, alertVars, buttons, calc, payNow>>

\* verifyPayment from the resolution of getTransactionReceipt (rpcOk: the
\* RPC call did not throw) to the next await or to the return
ReceiptDone(c, rpcOk) ==
  /\ c \in 1..Len(payCalls)
  /\ payCalls[c].pc = "getTransactionReceipt"
  /\ LET receipt == Chain.receipts[payCalls[c].txHash]
     IN payCalls' = [payCalls EXCEPT ![c] =
          IF ~rpcOk \/ receipt.status # 1
            THEN [@ EXCEPT !.pc = "done"]
            ELSE [@ EXCEPT !.pc = "queryFilter",
                           !.blockNumber = receipt.blockNumber]]
  /\ UNCHANGED <<cfg, activeSessions, tasks, nextId, events, dispatchLog,
                 lastPreview, cancelled, affirmed, alertVars, buttons, calc,
                 paymentRecords, payNow>>

\* verifyPayment from the resolution of queryFilter to its return: the
\* events are the Transfers from record.userAddress to record.payTo in the
\* block of the receipt
EventsDone(c, rpcOk) ==
  /\ c \in 1..Len(payCalls)
  /\ payCalls[c].pc = "queryFilter"
  /\ LET call == payCalls[c]
         transfers == SelectSeq(Chain.events[call.blockNumber],
                                LAMBDA e : e.from = call.record.userAddress)
         matchingEvent ==
           \E i \in 1..Len(transfers) : transfers[i].value >= 1
     IN IF rpcOk /\ matchingEvent
          THEN /\ paymentRecords' =
                    MapSet(paymentRecords,
                           [call.record EXCEPT
                              !.paid = TRUE,
                              !.verifiedTxHash = call.txHash,
                              !.verifiedAt = payNow])
               /\ payCalls' = [payCalls EXCEPT ![c].pc = "done",
                                               ![c].verified = TRUE]
          ELSE /\ payCalls' = [payCalls EXCEPT ![c].pc = "done"]
               /\ UNCHANGED paymentRecords
  /\ UNCHANGED <<cfg, activeSessions, tasks, nextId, events, dispatchLog,
                 lastPreview, cancelled, affirmed, alertVars, buttons, calc, payNow>>

\* five minutes pass
TimePasses ==
  /\ payNow + 5 <= MaxPayTime
  /\ payNow' = payNow + 5
  /\ UNCHANGED <<cfg, activeSessions, tasks, nextId, events, dispatchLog,
                 lastPreview, cancelled, affirmed, alertVars, buttons, calc,
                 paymentRecords, payCalls>>

PayInit == Init /\ cfg = AllChains

PayNext ==
  \/ \E sessionId \in {"s1", "s2"}, userAddress \in {"0xU1", "0xU2"} :
       PaymentRequest(sessionId, userAddress)
  \/ \E sessionId \in {"s1", "s2"}, t \in {0, 5},
        txHash \in {"txPaid", "txFailed", "txUnknown"} :
       verifyPayment(<<sessionId, t>>, txHash)
  \/ \E c \in 1..MaxVerifies, rpcOk \in BOOLEAN : ReceiptDone(c, rpcOk)
  \/ \E c \in 1..MaxVerifies, rpcOk \in BOOLEAN : EventsDone(c, rpcOk)
  \/ TimePasses

PaySpec == PayInit /\ [][PayNext]_vars

\* ------------------------------------------------------------------------
\* telegramBot.js: the confirm button of a preview
\* ------------------------------------------------------------------------
\* routeToAgent once handleUserMessage has returned: the response is sent,
\* and a response in awaiting_confirmation that has data.bestBridge (the
\* preview) carries a confirm button. The nonce of the button is made for
\* this preview; it is written here as the identity of the pendingTransaction
\* the preview describes.
routeToAgent(t) ==
  /\ tasks[t].pc = "done"
  /\ \A k \in TickIds : ticks[k].task # t
  /\ tasks' = [tasks EXCEPT ![t] = FreeTask]
  /\ buttons' =
       IF tasks[t].resp = Resp("preview", "awaiting_confirmation")
         THEN [buttons EXCEPT
                 !.sent = @ \cup {[sid |-> tasks[t].sid,
                                   nonce |-> tasks[t].exec.id]}]
         ELSE buttons
  /\ UNCHANGED <<cfg, activeSessions, nextId, events, dispatchLog, lastPreview,
                 cancelled, affirmed, alertVars, calc, paymentRecords,
                 payCalls, payNow>>

\* handleCallbackQuery for callback data confirm_<nonce>: the button b of a
\* message in the chat is pressed (a message stays in the chat, so any button
\* sent before can be pressed), and routeToAgent(chatId, sessionId, "yes")
\* calls handleUserMessage. The press is recorded with the pendingTransaction
\* the call handed to executeTransfer (0: none).
handleCallbackQuery(b) ==
  /\ b \in buttons.sent
  /\ \E t \in TaskIds : handleUserMessage(b.sid, "yes", t)
  /\ buttons' =
       [buttons EXCEPT
          !.pressed =
            Append(@, [button |-> b,
                       dispatched |->
                         IF dispatchLog' = dispatchLog THEN 0
                         ELSE dispatchLog'[Len(dispatchLog')].id])]
  /\ UNCHANGED <<alertVars, calc, paymentRecords, payCalls, payNow>>

\* a chat of the Telegram bot: text messages and button presses
ButtonNext ==
  \/ \E sid \in SessionIds, m \in {"sendBase", "no"} : Receive(sid, m)
  \/ \E sid \in SessionIds, nonce \in 1..MaxEvents :
       handleCallbackQuery([sid |-> sid, nonce |-> nonce])
  \/ \E t \in TaskIds : ParseDone(t)
  \/ \E t \in TaskIds : RouteDone(t)
  \/ \E t \in TaskIds : ValidateDone(t)
  \/ \E t \in TaskIds : PreviewDone(t)
  \/ \E t \in TaskIds : ApproveDone(t)
  \/ \E t \in TaskIds : ApproveWaitDone(t)
  \/ \E t \in TaskIds : SubmitDone(t)
  \/ \E t \in TaskIds : ExecExplainDone(t)
  \/ \E t \in TaskIds : routeToAgent(t)

ButtonSpec == Init /\ [][ButtonNext]_vars

\* ------------------------------------------------------------------------
\* server.js: DELETE /api/alerts/:alertId; layerzero.js: cancelAlert
\* ------------------------------------------------------------------------
\* cancelAlert(alertId) for the alertId of entry i returns true:
\* activeAlerts.delete(alertId). The iterators of the Map are live: a run of
\* the polling callback that is at or past the removed entry goes on with the
\* entry that followed it; the alert object it is evaluating stays with it.
CancelAlert(i) ==
  /\ NoneDone
  /\ i \in 1..Len(activeAlerts)
  /\ activeAlerts' =
       SubSeq(activeAlerts, 1, i - 1)
         \o SubSeq(activeAlerts, i + 1, Len(activeAlerts))
  /\ ticks' =
       [k \in TickIds |->
          IF ticks[k].pc # "idle" /\ ticks[k].index >= i
            THEN [ticks[k] EXCEPT !.index = @ - 1]
            ELSE ticks[k]]
  /\ UNCHANGED <<cfg, activeSessions, tasks, nextId, events, dispatchLog,
                 lastPreview, cancelled, affirmed, triggerLog, clock,
                 registered, auxVars>>

\* alerts are registered, watched and cancelled
CancelNext ==
  \/ \E sid \in SessionIds, a \in AlertIntents : RegisterAlert(sid, a)
  \/ \E i \in 1..MaxAlerts : CancelAlert(i)
  \/ \E k \in TickIds : TickStart(k)
  \/ \E k \in TickIds : TickChecked(k)
  \/ \E k \in TickIds : TickNotified(k)
  \/ \E k \in TickIds : TickConfirmed(k)
  \/ \E t \in TaskIds : ParseDone(t)

CancelSpec == AlertInit /\ [][CancelNext]_vars

TypeOK ==
  /\ \A sid \in DOMAIN activeSessions :
       activeSessions[sid].state \in
         {"idle", "awaiting_confirmation", "executing", "error"}
  /\ events \in 0..MaxEvents


\* ------------------------------------------------------------------------
\* Properties
\* ------------------------------------------------------------------------
\* the task a Receive step starts for session sid, as a set
Started(sid) ==
  { t \in TaskIds : tasks[t].pc = "free" /\ tasks'[t].pc # "free"
                    /\ tasks'[t].sid = sid }

\* C1: for every session and every stored pendingTransaction, executeTransfer
\* is invoked at most once for it, whatever the inbound events are (repeated
\* or concurrent confirmations, confirmations after a failed dispatch): no
\* two entries of the dispatch log are for the same pendingTransaction.
C1_DispatchedAtMostOnce ==
  \A i, j \in 1..Len(dispatchLog) :
    i # j => \/ dispatchLog[i].sid # dispatchLog[j].sid
             \/ dispatchLog[i].id # dispatchLog[j].id

\* a second "yes" is being processed after a dispatch that failed and left
\* its pendingTransaction in the session
C1_Witness ==
  /\ Len(dispatchLog) = 1
  /\ "s1" \in DOMAIN activeSessions
  /\ activeSessions["s1"].pendingTransaction.id = dispatchLog[1].id
  /\ \E t \in TaskIds : tasks[t].msg = "yes" /\ tasks[t].pc = "parsing"

\* C2: a session's state becomes executing, and executeTransfer is called,
\* only in the step that receives an affirmative reply while the state is
\* awaiting_confirmation, and the pendingTransaction handed over is exactly
\* the one stored when awaiting_confirmation was entered.
C2_ExecutingOnlyByConfirm ==
  [][\A sid \in SessionIds :
       (\/ Len(dispatchLog') > Len(dispatchLog)
           /\ dispatchLog'[Len(dispatchLog')].sid = sid
        \/ /\ sid \in DOMAIN activeSessions'
           /\ activeSessions'[sid].state = "executing"
           /\ SessionOf(sid).state # "executing")
       => /\ SessionOf(sid).state = "awaiting_confirmation"
          /\ \E t \in Started(sid) : IsYes[tasks'[t].msg]
          /\ lastPreview[sid] # None.pending
          /\ dispatchLog' =
               Append(dispatchLog,
                      [sid |-> sid, id |-> lastPreview[sid].id,
                       pending |-> lastPreview[sid]])]_vars

\* a session is executing the pendingTransaction that was stored last
C2_Witness ==
  /\ "s1" \in DOMAIN activeSessions
  /\ activeSessions["s1"].state = "executing"
  /\ Len(dispatchLog) = 1
  /\ dispatchLog[1].pending = lastPreview["s1"]
  /\ \E t \in TaskIds : tasks[t].pc = "approving" /\ tasks[t].msg = "yes"

\* C3: every transition of a session back to idle clears pendingTransaction
\* first: in every reachable state whose stored state is idle,
\* pendingTransaction is null.
C3_IdleHasNoPending ==
  \A sid \in DOMAIN activeSessions :
    activeSessions[sid].state = "idle"
      => activeSessions[sid].pendingTransaction = None.pending

\* C4: a negative reply received in awaiting_confirmation clears
\* pendingTransaction, makes the state idle and does not call
\* executeTransfer; and no later step calls executeTransfer for a
\* pendingTransaction that was cancelled.
C4_NoCancels ==
  [][\A sid \in SessionIds :
       /\ (/\ SessionOf(sid).state = "awaiting_confirmation"
           /\ \E t \in Started(sid) :
                IsNo[tasks'[t].msg] /\ ~IsYes[tasks'[t].msg])
          => /\ activeSessions'[sid].state = "idle"
             /\ activeSessions'[sid].pendingTransaction = None.pending
             /\ dispatchLog' = dispatchLog
             /\ SessionOf(sid).pendingTransaction.id \in cancelled'
       /\ Len(dispatchLog') > Len(dispatchLog)
          => dispatchLog'[Len(dispatchLog')].id \notin cancelled]_vars

\* after a cancellation, a later "yes" is being processed
C4_Witness ==
  /\ cancelled # {}
  /\ dispatchLog = <<>>
  /\ "s1" \in DOMAIN activeSessions
  /\ activeSessions["s1"].state = "idle"
  /\ activeSessions["s1"].pendingTransaction = None.pending
  /\ \E t \in TaskIds : tasks[t].msg = "yes" /\ tasks[t].pc = "parsing"

C6_NoInterleaving ==
  \A t, u \in TaskIds :
    (t # u /\ tasks[t].pc \notin {"free", "done"}
           /\ tasks[u].pc \notin {"free", "done"})
      => tasks[t].sid # tasks[u].sid

\* C7: while a session is executing, nothing but the settling dispatch
\* changes its state or its pendingTransaction.
C7_ExecutingIsExclusive ==
  [][\A sid \in DOMAIN activeSessions :
       (/\ activeSessions[sid].state = "executing"
        /\ \/ activeSessions'[sid].state # "executing"
           \/ activeSessions'[sid].pendingTransaction
                # activeSessions[sid].pendingTransaction)
       => \E t \in TaskIds :
            /\ tasks[t].sid = sid
            /\ tasks[t].pc \in {"approving", "approveWait", "submitting"}
            /\ tasks'[t].pc # tasks[t].pc]_vars

\* C8: a quote with executionReady = false is never dispatched: every call
\* of executeTransfer, and every session that is executing, has a
\* pendingTransaction whose chosen quote is ready.
C8_OnlyReadyDispatched ==
  /\ \A i \in 1..Len(dispatchLog) :
       dispatchLog[i].pending # None.pending
         => dispatchLog[i].pending.bridgeQuote.executionReady = TRUE
  /\ \A sid \in DOMAIN activeSessions :
       LET s == activeSessions[sid]
       IN (s.state = "executing" /\ s.pendingTransaction # None.pending)
            => s.pendingTransaction.bridgeQuote.executionReady = TRUE

\* a transfer between two chains Across serves, with tokens configured on
\* both, was dispatched on a ready quote
C8_Witness ==
  /\ cfg = AllChains
  /\ Len(dispatchLog) = 1
  /\ dispatchLog[1].pending.intent.fromChain = "ethereum"
  /\ dispatchLog[1].pending.intent.toChain = "base"
  /\ dispatchLog[1].pending.bridgeQuote.executionReady = TRUE

\* C9: a reply in awaiting_confirmation that is neither affirmative nor
\* negative is answered with a re-prompt; the session's state and
\* pendingTransaction stay as they are and executeTransfer is not called.
C9_OtherReplyReprompts ==
  [][\A sid \in SessionIds :
       \A t \in Started(sid) :
         (/\ SessionOf(sid).state = "awaiting_confirmation"
          /\ ~IsYes[tasks'[t].msg] /\ ~IsNo[tasks'[t].msg])
         => /\ tasks'[t].pc = "done"
            /\ tasks'[t].resp = Resp("reprompt", "awaiting_confirmation")
            /\ activeSessions'[sid].state = "awaiting_confirmation"
            /\ activeSessions'[sid].pendingTransaction
                 = SessionOf(sid).pendingTransaction
            /\ dispatchLog' = dispatchLog]_vars

\* "hmm" was answered with a re-prompt and the session still awaits the
\* confirmation of its pendingTransaction
C9_Witness ==
  /\ \E t \in TaskIds :
       /\ tasks[t].msg = "hmm" /\ tasks[t].pc = "done"
       /\ tasks[t].resp = Resp("reprompt", "awaiting_confirmation")
  /\ "s1" \in DOMAIN activeSessions
  /\ activeSessions["s1"].state = "awaiting_confirmation"
  /\ activeSessions["s1"].pendingTransaction # None.pending

\* C10: an affirmative reply received while the session is idle leaves the
\* stored state idle and pendingTransaction as it is, calls executeTransfer
\* at no step of its processing, and is answered with a message that says
\* what is missing.
C10_YesInIdleIsNoOp ==
  [][\A sid \in SessionIds :
       /\ \A t \in Started(sid) :
            (/\ SessionOf(sid).state = "idle"
             /\ IsYes[tasks'[t].msg] /\ ~IsNo[tasks'[t].msg])
            => /\ activeSessions'[sid].state = "idle"
               /\ activeSessions'[sid].pendingTransaction
                    = SessionOf(sid).pendingTransaction
               /\ dispatchLog' = dispatchLog
       /\ \A t \in TaskIds :
            (/\ tasks[t].sid = sid /\ tasks[t].pc = "parsing"
             /\ tasks'[t].pc # "parsing"
             /\ IsYes[tasks[t].msg] /\ ~IsNo[tasks[t].msg])
            => /\ activeSessions'[sid].state = activeSessions[sid].state
               /\ activeSessions'[sid].pendingTransaction
                    = activeSessions[sid].pendingTransaction
               /\ dispatchLog' = dispatchLog
               /\ tasks'[t].pc = "done"
               /\ tasks'[t].resp.state = "idle"
               /\ tasks'[t].resp.kind \in
                    {"clarify_both", "clarify_address", "clarify_amount",
                     "clarify_token", "clarify_generic"}]_vars

\* "yes" sent to an idle session was answered with a request for the
\* missing details; nothing was dispatched
C10_Witness ==
  /\ \E t \in TaskIds :
       /\ tasks[t].msg = "yes" /\ tasks[t].pc = "done"
       /\ tasks[t].resp = Resp("clarify_both", "idle")
  /\ "s1" \in DOMAIN activeSessions
  /\ activeSessions["s1"].state = "idle"
  /\ dispatchLog = <<>>

\* C11: when an auto-execute alert fires, the transfer the synthetic "yes"
\* dispatches is the one the alert's stored transfer details describe; it
\* never confirms another transfer that is pending in the session.
C11_AlertDispatchesItsOwnTransfer ==
  [][\A k \in TickIds :
       (/\ ticks[k].pc = "notifying"
        /\ ticks'[k].pc = "confirming"
        /\ Len(dispatchLog') > Len(dispatchLog))
       => dispatchLog'[Len(dispatchLog')].pending.intent =
            ticks[k].alert.transferDetails]_vars

\* C12: an alert whose condition is satisfied at a tick is triggered by that
\* tick and skipped by every later tick: over any number of ticks one
\* trigger event at most is emitted for an alert.
C12_TriggeredOnce ==
  \A i \in 1..Len(triggerLog), j \in 1..Len(triggerLog) :
    triggerLog[i].obj = triggerLog[j].obj => i = j

\* C13: when the evaluation of one alert fails with an error, the tick goes
\* on to evaluate the next alert of the registry that is not triggered.
C13_ErrorDoesNotEndTheTick ==
  [][\A k \in TickIds :
       (/\ ticks[k].pc = "checking"
        /\ ticks'[k] # ticks[k]
        /\ \A reading \in AlertReadings :
             checkPriceAlert(ticks[k].alert, reading) = "throw"
        /\ skipTriggered(activeAlerts, ticks[k].index + 1) # 0)
       => /\ ticks'[k].pc = "checking"
          /\ ticks'[k].index =
               skipTriggered(activeAlerts, ticks[k].index + 1)]_vars

\* C14: in every dispatch the transfer is submitted only after the approval
\* was sent and confirmed; after a failed step no further step is taken, and
\* a dispatch with a failed step ends with a failure result, a receipt being
\* returned only when all three steps succeeded.
C14_SubmitAfterApprovalConfirmed ==
  \A t \in TaskIds :
    LET task == tasks[t]
        failed == \E i \in 1..Len(task.log) : ~task.log[i][2]
    IN /\ task.pc = "submitting"
            => task.log = <<<<"approving", TRUE>>, <<"approveWait", TRUE>>>>
       /\ task.resp.kind = "receipt"
            => task.log = <<<<"approving", TRUE>>, <<"approveWait", TRUE>>,
                            <<"submitting", TRUE>>>>
       /\ failed => /\ task.pc \in {"execExplain", "done"}
                    /\ ~task.log[Len(task.log)][2]
                    /\ \A i \in 1..(Len(task.log) - 1) : task.log[i][2]
                    /\ task.pc = "done" => task.resp.kind = "transfer_failed"

\* a dispatch whose approval failed to confirm has ended with a failure
C14_Witness ==
  \E t \in TaskIds :
    /\ tasks[t].pc = "done"
    /\ tasks[t].resp.kind = "transfer_failed"
    /\ tasks[t].log = <<<<"approving", TRUE>>, <<"approveWait", FALSE>>>>

\* C15: the dispatcher is invoked only in a step that accepts an affirmative
\* reply in awaiting_confirmation, once per such reply: the number of
\* dispatches never exceeds the number of those replies, and no step after a
\* failed dispatch dispatches again without a new one.
C15_DispatchNeedsConfirmation ==
  [][/\ Len(dispatchLog') >= Len(dispatchLog)
     /\ Len(dispatchLog') > Len(dispatchLog)
          => /\ Len(dispatchLog') = Len(dispatchLog) + 1
             /\ affirmed' = affirmed + 1
     /\ Len(dispatchLog) <= affirmed]_vars

\* a dispatch has failed and left its pendingTransaction in the session; a
\* later "yes" is being handled and has not dispatched anything
C15_Witness ==
  \E t \in TaskIds :
    /\ tasks[t].pc = "parsing"
    /\ IsYes[tasks[t].msg]
    /\ Len(dispatchLog) = 1
    /\ affirmed = 1
    /\ SessionOf(tasks[t].sid).state = "idle"
    /\ SessionOf(tasks[t].sid).pendingTransaction # None.pending

\* C16: when the confirmed quote's execution method needs no approval from
\* the dispatcher (wormhole_ntt, layerzero_stargate) and the token is
\* configured, the dispatch skips the approval and goes to the submission of
\* the transfer.
C16_SdkMethodsSkipApproval ==
  [][\A sid \in SessionIds : \A t \in Started(sid) :
       (/\ Len(dispatchLog') > Len(dispatchLog)
        /\ SessionOf(sid).pendingTransaction.bridgeQuote.executionMethod
             \in {"wormhole_ntt", "layerzero_stargate"}
        /\ TokenConfigured(cfg,
                           SessionOf(sid).pendingTransaction.intent.fromChain,
                           SessionOf(sid).pendingTransaction.intent.token))
       => tasks'[t].pc = "submitting"]_vars

\* C17: a confirmed quote whose execution method is not a recognised one is
\* never submitted under any method: its dispatch is in the catch block by
\* the time the session is left alone, the session is idle then, and the
\* dispatch ends with a failure result.
C17_UnlistedMethodFails ==
  [][\A t \in TaskIds :
       LET unlisted ==
             \/ /\ tasks[t].exec # None.pending
                /\ tasks[t].exec.bridgeQuote.executionMethod = UnlistedMethod
             \/ /\ tasks[t].pc = "free"
                /\ Len(dispatchLog') > Len(dispatchLog)
                /\ dispatchLog'[Len(dispatchLog')].pending.bridgeQuote
                     .executionMethod = UnlistedMethod
       IN (unlisted /\ tasks'[t] # tasks[t])
          => /\ tasks'[t].pc \in {"approving", "approveWait", "execExplain",
                                  "done"}
             /\ tasks'[t].pc = "execExplain"
                  => activeSessions'[tasks'[t].sid].state = "idle"
             /\ tasks'[t].pc = "done"
                  => tasks'[t].resp.kind = "transfer_failed"]_vars

\* the dispatch of a quote with an unrecognised method has failed and the
\* session is idle
C17_Witness ==
  \E t \in TaskIds :
    /\ tasks[t].pc = "execExplain"
    /\ tasks[t].exec.bridgeQuote.executionMethod = UnlistedMethod
    /\ activeSessions[tasks[t].sid].state = "idle"

\* C18: when a collaborator fails (the resolver's intent cannot be handled,
\* no route is found, the validation fails, the dispatch fails), the call
\* returns a response that carries a message, and the session's stored state
\* is idle when it returns.
C18_FailureReturnsToIdle ==
  \A t \in TaskIds :
    (/\ tasks[t].pc = "done"
     /\ tasks[t].resp.kind \in
          {"internal_error", "no_route", "no_route_solana",
           "validation_failed", "transfer_failed"})
    => /\ tasks[t].resp.state \in {"idle", "error"}
       /\ SessionOf(tasks[t].sid).state = "idle"

\* C19: a session that enters executing returns to idle once the steps of
\* the dispatch have settled, whether it succeeded or failed; no stored
\* state is a terminal error state, so a new transfer can be previewed.
C19_ExecutingLeadsToIdle ==
  \A sid \in SessionIds :
    /\ [](SessionOf(sid).state # "error")
    /\ (SessionOf(sid).state = "executing") ~> (SessionOf(sid).state = "idle")

\* after the dispatch of the first pendingTransaction failed, a new transfer
\* has reached awaiting_confirmation
C19_Witness ==
  \E sid \in SessionIds :
    /\ Len(dispatchLog) = 1
    /\ dispatchLog[1].id = 1
    /\ \A t \in TaskIds : tasks[t].pc = "free"
    /\ SessionOf(sid).state = "awaiting_confirmation"
    /\ SessionOf(sid).pendingTransaction.id = 2

\* C20: the handling of an alert, query or clarification_needed intent
\* leaves the session's stored state and pendingTransaction as they are: it
\* never moves the session into awaiting_confirmation and never stores a
\* pendingTransaction.
C20_OtherIntentsKeepState ==
  [][\A t \in TaskIds :
       (\/ /\ tasks[t].pc = "parsing"
           /\ \/ tasks'[t].pc = "querying"
              \/ /\ tasks'[t].pc = "done"
                 /\ tasks'[t].resp.kind \in
                      {"alert_registered", "query_help", "clarify_both",
                       "clarify_address", "clarify_amount", "clarify_token",
                       "clarify_generic"}
        \/ /\ tasks[t].pc = "querying"
           /\ tasks'[t].pc = "done")
       => /\ activeSessions'[tasks[t].sid].state =
               activeSessions[tasks[t].sid].state
          /\ activeSessions'[tasks[t].sid].pendingTransaction =
               activeSessions[tasks[t].sid].pendingTransaction]_vars

\* an alert has been registered in a session that holds a pendingTransaction
C20_Witness ==
  \E t \in TaskIds :
    /\ tasks[t].pc = "done"
    /\ tasks[t].resp.kind = "alert_registered"
    /\ Len(SessionOf(tasks[t].sid).alerts) = 1
    /\ SessionOf(tasks[t].sid).pendingTransaction # None.pending

\* C21: every response handleUserMessage returns has a state field that is
\* one of idle, awaiting_confirmation, executing and error.
C21_ResponseStateIsASessionState ==
  \A t \in TaskIds :
    tasks[t].pc = "done"
      => tasks[t].resp.state \in
           {"idle", "awaiting_confirmation", "executing", "error"}

\* a failed dispatch has been answered with the state error
C21_Witness ==
  \E t \in TaskIds :
    /\ tasks[t].pc = "done"
    /\ tasks[t].resp = Resp("transfer_failed", "error")

\* C22: when every provider adapter fails or returns no quote,
\* getBestBridgeRoute returns best = null, an empty quote sequence and at
\* least one warning (it returns: nothing in it throws).
C22_NoQuotesGivesWarning ==
  (/\ calc.fn = "getBestBridgeRoute"
   /\ \A i \in 1..5 : calc.settled[i] = None.quote)
    => /\ calc.route.best = None.quote
       /\ calc.route.all = <<>>
       /\ Len(calc.route.warnings) >= 1

\* the aggregator has returned for five providers without a quote
C22_Witness ==
  /\ calc.fn = "getBestBridgeRoute"
  /\ \A i \in 1..5 : calc.settled[i] = None.quote
  /\ calc.route.warnings = <<[kind |-> "no_route", bridge |-> NULL]>>

\* C23: aggregation always terminates: when one provider adapter never
\* responds while the others settle, getBestBridgeRoute still eventually
\* returns (with the quotes of the providers that did respond).
C23_AggregationTerminates ==
  (calc.fn = "allSettled") ~> (calc.fn = "getBestBridgeRoute")

\* how often the quote q occurs in the sequence qs
Occurrences(qs, q) == Cardinality({ i \in 1..Len(qs) : qs[i] = q })

\* the sequences hold the same quotes with the same multiplicities
SameQuotes(qs, rs) ==
  /\ Len(qs) = Len(rs)
  /\ \A q \in QuotePool : Occurrences(qs, q) = Occurrences(rs, q)

\* C24: for every set of provider results, if at least one returned quote
\* has executionReady = true the ranked result holds exactly the
\* executionReady quotes; otherwise it holds all returned quotes and, when
\* there are any, the warnings include the one saying that none can execute.
C24_ReadyQuotesOnlyElseAllWithWarning ==
  calc.fn = "getBestBridgeRoute" =>
    LET returned == SelectSeq(calc.settled, LAMBDA q : q # None.quote)
        ready == SelectSeq(returned, LAMBDA q : q.executionReady = TRUE)
    IN IF ready # <<>>
         THEN SameQuotes(calc.route.all, ready)
         ELSE /\ SameQuotes(calc.route.all, returned)
              /\ returned # <<>> =>
                   \E i \in 1..Len(calc.route.warnings) :
                     calc.route.warnings[i].kind = "sdk_not_installed"

\* the aggregator has returned for results with a quote that can execute
\* and one that cannot, and has left the latter out
C24_Witness ==
  /\ calc.fn = "getBestBridgeRoute"
  /\ \E i, j \in 1..5 :
       /\ calc.settled[i] # None.quote /\ calc.settled[i].executionReady = TRUE
       /\ calc.settled[j] # None.quote /\ calc.settled[j].executionReady = FALSE
       /\ \A k \in 1..Len(calc.route.all) :
            calc.route.all[k] # calc.settled[j]

\* C25: for every quote sequence, rankQuotes with policy cheapest returns a
\* sequence non-decreasing in feeUSD, with policy fastest one non-decreasing
\* in estimatedMinutes, and with policy safest one non-increasing in
\* successRate.
C25_RankedByThePolicyKey ==
  calc.fn = "rankQuotes" =>
    \A i \in 1..(Len(calc.ranked) - 1) :
      LET a == calc.ranked[i]
          b == calc.ranked[i + 1]
      IN /\ calc.priority = "cheapest" => a.feeUSD <= b.feeUSD
         /\ calc.priority = "fastest"
              => a.estimatedMinutes <= b.estimatedMinutes
         /\ calc.priority = "safest" => a.successRate >= b.successRate

\* rankQuotes has reordered at least three quotes by successRate
C25_Witness ==
  /\ calc.fn = "rankQuotes"
  /\ calc.priority = "safest"
  /\ Len(calc.ranked) >= 3
  /\ calc.ranked # SelectSeq(calc.settled, LAMBDA q : q # None.quote)
  /\ calc.ranked[1].successRate > calc.ranked[Len(calc.ranked)].successRate

\* the provider identifiers in ascending order
ProviderIds == <<"Across", "Axelar", "Celer", "LayerZero/Stargate", "Wormhole">>

ProviderRank(q) == CHOOSE i \in 1..Len(ProviderIds) : ProviderIds[i] = q.bridge

\* C26: for every policy, two quotes that tie on the policy's sort key
\* appear in the ranked result in ascending order of provider identifier.
C26_TiesInProviderOrder ==
  calc.fn = "rankQuotes" =>
    \A i, j \in 1..Len(calc.ranked) :
      (/\ i < j
       /\ rankCompare(calc.ranked[i], calc.ranked[j], calc.priority) = 0)
        => ProviderRank(calc.ranked[i]) <= ProviderRank(calc.ranked[j])

\* C27: rankQuotes never filters: for every input sequence and policy the
\* output is a permutation of the input (same quotes, same multiplicities),
\* the input sequence is not modified, and the best of the aggregator is the
\* first element of its ranked sequence.
C27_RankingIsAPermutation ==
  LET quotes == SelectSeq(calc.settled, LAMBDA q : q # None.quote)
  IN /\ calc.fn = "rankQuotes"
          => /\ SameQuotes(calc.ranked, quotes)
             /\ calc.argument = quotes
     /\ (calc.fn = "getBestBridgeRoute" /\ calc.route.all # <<>>)
          => calc.route.best = calc.route.all[1]

\* rankQuotes has reordered a sequence in which a quote occurs twice
C27_Witness ==
  /\ calc.fn = "rankQuotes"
  /\ calc.ranked # calc.argument
  /\ \E i, j \in 1..Len(calc.argument) :
       i # j /\ calc.argument[i] = calc.argument[j]

\* C28: for every transfer request and every chosen quote (null included),
\* the verdict of validateTransfer has valid = true exactly when its errors
\* sequence is empty; warnings and suggestions never change valid.
C28_ValidIffNoErrors ==
  calc.fn = "validateTransfer"
    => (calc.verdict.valid <=> calc.verdict.errors = <<>>)

\* a verdict without errors and with a warning and a suggestion is valid
C28_Witness ==
  /\ calc.fn = "validateTransfer"
  /\ calc.verdict.valid
  /\ calc.verdict.warnings # <<>>
  /\ calc.verdict.suggestions # <<>>

\* C29: for every request whose asset is USDm and whose destination network
\* is not celo, validateTransfer returns valid = false with the error that
\* USDm is only available on Celo and the suggestion to swap first, whatever
\* the other checks find.
C29_UsdmOffCeloIsRefused ==
  (/\ calc.fn = "validateTransfer"
   /\ calc.intent.token = "USDm"
   /\ calc.intent.toChain # "celo")
    => /\ ~calc.verdict.valid
       /\ \E i \in 1..Len(calc.verdict.errors) :
            calc.verdict.errors[i] = "usdm_only_on_celo"
       /\ \E i \in 1..Len(calc.verdict.suggestions) :
            calc.verdict.suggestions[i] = "swap_usdm_first"

\* USDm to an address on another network is refused with the restricted
\* asset among several errors
C29_Witness ==
  /\ calc.fn = "validateTransfer"
  /\ calc.intent.token = "USDm"
  /\ calc.intent.toChain = "base"
  /\ calc.intent.toAddress = EvmAddr1
  /\ calc.verdict.errors = <<"token_unsupported", "usdm_only_on_celo">>
  /\ ~calc.verdict.valid

C31_NegativeReplyNeverExecutes ==
  [][\A t \in TaskIds :
       (/\ tasks[t].pc = "free"
        /\ tasks'[t].pc # "free"
        /\ IsNo[tasks'[t].msg]
        /\ SessionOf(tasks'[t].sid).state = "awaiting_confirmation")
         => dispatchLog' = dispatchLog]_vars

\* C32: a confirm button sent with one preview confirms only the
\* pendingTransaction that preview described: a press of the button never
\* hands a different pendingTransaction to executeTransfer, also after that
\* transaction was cancelled, executed or replaced by a later preview.
C32_ConfirmButtonBoundToPreview ==
  \A i \in 1..Len(buttons.pressed) :
    buttons.pressed[i].dispatched \in {0, buttons.pressed[i].button.nonce}

\* C33: when a tick starts while an earlier tick is still awaiting the
\* evaluation of an alert or its trigger callback, the alert still yields one
\* trigger event and one auto-execute confirmation at most: a tick emits a
\* trigger event only for an alert no tick has triggered, and the tick that
\* sends the synthetic "yes" for an alert is the only one that triggered it.
C33_OverlappingTicksTriggerOnce ==
  [][\A k \in TickIds :
       /\ (/\ ticks[k].pc = "checking"
           /\ Len(triggerLog') > Len(triggerLog))
            => \A i \in 1..Len(triggerLog) :
                 triggerLog[i].obj # ticks[k].alert.obj
       /\ (/\ ticks[k].pc = "notifying"
           /\ ticks'[k].pc = "confirming")
            => \A i \in 1..Len(triggerLog) :
                 triggerLog[i].obj = ticks[k].alert.obj
                   => triggerLog[i].tick = k]_vars

\* C34: after cancelAlert(alertId) has returned true no trigger event is
\* emitted for that alert, also when a tick was evaluating the alert's
\* condition at the time: a tick emits a trigger event only for an alert
\* whose alertId is in the registry.
C34_NoTriggerAfterCancel ==
  [][\A k \in TickIds :
       (/\ ticks[k].pc = "checking"
        /\ Len(triggerLog') > Len(triggerLog))
         => alertIndex(activeAlerts, ticks[k].alert.alertId, 1) # 0]_vars

\* C35: an alert registered by an alert intent sent through
\* handleUserMessage is in the registry of the monitor: as long as no alert
\* is triggered or cancelled, getAlertsForSession returns, for every alert
\* stored in a session, an alert with that condition, threshold and action.
C35_AlertIntentReachesRegistry ==
  \A sid \in DOMAIN activeSessions :
    \A i \in 1..Len(activeSessions[sid].alerts) :
      LET intent == activeSessions[sid].alerts[i]
          found == getAlertsForSession(activeAlerts, sid)
      IN triggerLog = <<>>
           => \E j \in 1..Len(found) :
                /\ found[j].condition = intent.condition
                /\ found[j].threshold = intent.threshold
                /\ found[j].action = intent.action

\* C36: in every reachable state where the stored state of a session is
\* awaiting_confirmation, the session's pendingTransaction is set, its
\* chosen quote is set, its validation verdict is valid and the fee of its
\* quote is at most a quarter of the amount.
C36_AwaitingHoldsValidatedTransfer ==
  \A sid \in DOMAIN activeSessions :
    LET session == activeSessions[sid]
        pending == session.pendingTransaction
    IN session.state = "awaiting_confirmation"
         => /\ pending # None.pending
            /\ pending.bridgeQuote # None.quote
            /\ pending.validation.valid
            /\ pending.intent.amount > 0
            /\ ~RatioGt(pending.bridgeQuote.feeUSD, pending.intent.amount,
                        25, 100)

\* a preview was stored while the dispatch of an earlier confirmation of the
\* session is still awaiting its approval: the session awaits a confirmation
C36_Witness ==
  \E sid \in DOMAIN activeSessions, t \in TaskIds :
    /\ activeSessions[sid].state = "awaiting_confirmation"
    /\ tasks[t].sid = sid
    /\ tasks[t].pc = "approving"
    /\ activeSessions[sid].pendingTransaction.id # tasks[t].exec.id

\* C37: the state field of the response of every call of handleUserMessage
\* equals the stored state of the session at the moment the call returns,
\* for every event and prior state, dispatch failures and events handled
\* while the session is executing included.
C37_ResponseStateIsStoredState ==
  [][\A t \in TaskIds, sid \in SessionIds :
       (tasks[t].pc # "done" /\ tasks'[t].pc = "done" /\ tasks'[t].sid = sid)
         => tasks'[t].resp.state = SessionOf(sid)'.state]_vars

\* C38: validateTransfer reports the unsupported-asset error exactly when
\* the support matrix has no true entry for the asset on the destination
\* network of the request, which is the network processTransfer resolved
\* from the recipient address and the conversation (toChain), for every
\* address family and destination.
C38_AssetCheckedOnRequestedNetwork ==
  (/\ calc.fn = "validateTransfer"
   /\ \E hint \in SUBSET {Words.base, Words.celo} :
        detectChainFromAddress(calc.intent.toAddress, hint).chain
          = calc.intent.toChain)
    => ((\E i \in 1..Len(calc.verdict.errors) :
           calc.verdict.errors[i] = "token_unsupported")
        <=> ~TOKEN_SUPPORT_MATRIX(calc.intent.toChain, calc.intent.token))

=============================================================================
